---- MODULE Spec2Model ----
(***************************************************************************)
(* State-machine model of the micro_sp_gui control panel: the tab          *)
(* controller (tabs.rs), the Lookup tab (lookup.rs) and the Robot tab      *)
(* (robot.rs), their poll_promise slots and the worker threads behind      *)
(* them.  One redraw frame (MyApp::ui) is one action; every backend reply  *)
(* that a worker thread receives is one action.                            *)
(*                                                                         *)
(* Conventions.  Option<T> is a sequence of length 0 (None) or 1 (Some).   *)
(* Result<T, E> is a record [ok, val, err] whose val / err are Options.    *)
(* f64 values are modelled by integers.  A formatted string is the tuple   *)
(* of its parts.                                                           *)
(***************************************************************************)
EXTENDS Integers, Sequences, FiniteSets, TLC

VARIABLES
    active_tab,     \* MyApp.active_tab
    lookup_tab,     \* MyApp.lookup_tab  (struct LookupTab)
    robot_tab,      \* MyApp.robot_tab   (struct RobotTab)
    detached,       \* worker threads still running whose Promise was dropped
    written_file    \* the last file std::fs::write has written, if any

vars == <<active_tab, lookup_tab, robot_tab, detached, written_file>>

\* at most this many worker threads of one name outlive their promise
MaxDetached == 1

----------------------------------------------------------------------------
(* Option and Result *)

None == <<>>
Some(x) == <<x>>
is_some(o) == o # <<>>
is_none(o) == o = <<>>
unwrap(o) == o[1]
\* Option<String>::unwrap_or_default: the empty string for None
unwrap_or_default(o) == IF is_some(o) THEN o[1] ELSE ""

Ok(x) == [ok |-> TRUE, val |-> <<x>>, err |-> <<>>]
Err(e) == [ok |-> FALSE, val |-> <<>>, err |-> <<e>>]

----------------------------------------------------------------------------
(* Strings and their order.  String's Ord is the lexicographic order of    *)
(* the UTF-8 bytes; Bytes gives the bytes of the frame names of the model. *)

Bytes(s) ==
    CASE s = "base_link" -> <<98, 97, 115, 101, 95, 108, 105, 110, 107>>
      [] s = "tool0"     -> <<116, 111, 111, 108, 48>>
      [] s = "tool"      -> <<116, 111, 111, 108>>
      [] s = "world"     -> <<119, 111, 114, 108, 100>>
      [] s = ""          -> <<>>

RECURSIVE LexLess(_, _)
LexLess(x, y) ==
    IF y = <<>> THEN FALSE
    ELSE IF x = <<>> THEN TRUE
    ELSE IF Head(x) < Head(y) THEN TRUE
    ELSE IF Head(x) > Head(y) THEN FALSE
    ELSE LexLess(Tail(x), Tail(y))

StrLess(a, b) == LexLess(Bytes(a), Bytes(b))

\* Vec::contains
contains(v, x) == \E i \in DOMAIN v : v[i] = x

RECURSIVE InsertSorted(_, _)
InsertSorted(sorted, x) ==
    IF sorted = <<>> THEN <<x>>
    ELSE IF StrLess(x, Head(sorted)) THEN <<x>> \o sorted
    ELSE <<Head(sorted)>> \o InsertSorted(Tail(sorted), x)

RECURSIVE SortFrom(_, _)
SortFrom(acc, rest) ==
    IF rest = <<>> THEN acc
    ELSE SortFrom(InsertSorted(acc, Head(rest)), Tail(rest))

\* mutant: the keys are left in the map's iteration order
sort_unstable_Skipped(v) == v

\* slice::sort_unstable on Vec<String> (insertion sort, as for short slices)
sort_unstable(v) == SortFrom(<<>>, v)

----------------------------------------------------------------------------
(* micro_sp values, as far as the GUI inspects them *)

SPValue(kind, num, items, flag, text) ==
    [kind |-> kind, num |-> num, items |-> items, flag |-> flag, text |-> text]
\* SPValue::Float64(FloatOrUnknown::Float64(OrderedFloat(x)))
SPFloat(x) == SPValue("Float64", x, <<>>, FALSE, "")
\* SPValue::Float64(FloatOrUnknown::UNKNOWN)
SPFloatUnknown == SPValue("Float64Unknown", 0, <<>>, FALSE, "")
\* SPValue::String(StringOrUnknown::String(t))
SPString(t) == SPValue("String", 0, <<>>, FALSE, t)
\* SPValue::Bool(BoolOrUnknown::Bool(b))
SPBool(b) == SPValue("Bool", 0, <<>>, b, "")
\* SPValue::Array(ArrayOrUnknown::Array(items))
SPArray(a) == SPValue("Array", 0, a, FALSE, "")
\* SPValue::Array(ArrayOrUnknown::UNKNOWN)
SPArrayUnknown == SPValue("ArrayUnknown", 0, <<>>, FALSE, "")

\* SPTransformStamped as TransformsManager::lookup_transform(parent, child)
\* returns it; t is its SPTransform (translation and rotation)
SPTransformStamped(parent, child, t) ==
    [parent_frame_id |-> parent, child_frame_id |-> child, transform |-> t]

----------------------------------------------------------------------------
(* lookup.rs: the backend reads of the Lookup tab *)

\* reply: Result of TransformsManager::lookup_transform
lookup_transform(reply) ==
    IF reply.ok THEN Ok(unwrap(reply.val))
    ELSE Err(<<"GUI Failed to lookup transform with: ", unwrap(reply.err)>>)

\* the closure of get_joint_states applied to one element of the array
joint_value(j) == IF j.kind = "Float64" THEN j.num ELSE 0

\* mutant: a failed read gives six zero joints in place of the empty vector
get_joint_states_SixZeros(reply) ==
    IF is_some(reply) /\ unwrap(reply).kind = "Array"
    THEN [i \in DOMAIN unwrap(reply).items |-> joint_value(unwrap(reply).items[i])]
    ELSE <<0, 0, 0, 0, 0, 0>>

\* reply: Option<SPValue> of get_sp_value("{robot_id}_joint_states")
get_joint_states(reply) ==
    IF is_some(reply)
    THEN IF unwrap(reply).kind = "Array"
         THEN [i \in DOMAIN unwrap(reply).items |->
                   joint_value(unwrap(reply).items[i])]
         ELSE <<>>
    ELSE <<>>

\* reply: Option<SPValue> of get_sp_value("opc_current_position")
get_opc_current_position(reply) ==
    IF is_some(reply)
    THEN IF unwrap(reply).kind = "Float64" THEN unwrap(reply).num ELSE 0
    ELSE 0

LookupData(transform, joint_states, gantry_position) ==
    [transform |-> transform, joint_states |-> joint_states,
     gantry_position |-> gantry_position]

\* mutant: the result is built even when the transform read failed
get_lookup_data_Lenient(transform_res, joints_res, gantry_res) ==
    IF transform_res.ok
    THEN Ok(LookupData(unwrap(transform_res.val), joints_res, gantry_res))
    ELSE Ok(LookupData(SPTransformStamped("", "", <<>>), joints_res, gantry_res))

\* the match after tokio::join! in get_lookup_data
get_lookup_data(transform_res, joints_res, gantry_res) ==
    IF transform_res.ok
    THEN Ok(LookupData(unwrap(transform_res.val), joints_res, gantry_res))
    ELSE Err(unwrap(transform_res.err))

\* mutant: a failed read gives a map with the error as its only key
get_all_transforms_ErrorAsKey(reply) ==
    IF reply.ok THEN unwrap(reply.val) ELSE <<unwrap(reply.err)>>

\* reply: Result of TransformsManager::get_all_transforms; a map is modelled by
\* its keys in the map's iteration order
get_all_transforms(reply) ==
    IF reply.ok THEN unwrap(reply.val) ELSE <<>>

----------------------------------------------------------------------------
(* lookup.rs: the exported document *)

\* format!("j{}", i)
JointName(i) == <<"j", i>>

\* mutant: the joints are numbered from one
vec_to_joint_map_FromOne(joints) ==
    [n \in {JointName(i) : i \in DOMAIN joints} |-> joints[n[2]]]

vec_to_joint_map(joints) ==
    [n \in {JointName(i - 1) : i \in DOMAIN joints} |-> joints[n[2] + 1]]

Metadata(tcp_id, joint_map, gantry) ==
    [tcp_id |-> tcp_id, preferred_joint_configuration |-> joint_map,
     enable_transform |-> TRUE, active_transform |-> FALSE, gantry |-> gantry]

JsonOutputWithMetadata(child, parent, transform, metadata) ==
    [child_frame_id |-> child, parent_frame_id |-> parent,
     transform |-> transform, metadata |-> metadata]

\* serde_json::to_string_pretty of a JsonOutputWithMetadata: the document's
\* members in the order of the struct's fields
to_string_pretty(o) ==
    Ok(<< <<"child_frame_id", o.child_frame_id>>,
          <<"parent_frame_id", o.parent_frame_id>>,
          <<"transform", o.transform>>,
          <<"metadata",
            << <<"tcp_id", o.metadata.tcp_id>>,
               <<"preferred_joint_configuration",
                 o.metadata.preferred_joint_configuration>>,
               <<"enable_transform", o.metadata.enable_transform>>,
               <<"active_transform", o.metadata.active_transform>>,
               <<"gantry", o.metadata.gantry>> >> >> >>)

----------------------------------------------------------------------------
(* poll_promise::Promise.  A promise made by Promise::spawn_thread is the  *)
(* receiving end of the worker thread's result: poll() is Ready once the   *)
(* thread has sent it.  Dropping a pending promise does not stop the       *)
(* thread: `detached` counts such threads per thread name.                 *)

Pending == None
Ready(x) == Some(x)

\* Promise<HashMap<String, SPTransformStamped>> of the thread "fetcher"
TransformsPromise(result) == [result |-> result]
poll_transforms(promise) == promise.result

\* Promise<LookupResult> of the thread "lookup_fetcher": what the closure
\* captured and the replies the three joined reads have received so far
LookupPromise(parent, child, robot_id, transform_reply, joints_reply, gantry_reply) ==
    [parent |-> parent, child |-> child, robot_id |-> robot_id,
     transform_reply |-> transform_reply, joints_reply |-> joints_reply,
     gantry_reply |-> gantry_reply]

\* tokio::join! completes when all three reads have completed
JoinDone(promise) ==
    /\ is_some(promise.transform_reply)
    /\ is_some(promise.joints_reply)
    /\ is_some(promise.gantry_reply)

\* mutant: the promise is ready as soon as the transform read has failed
poll_lookup_FailFast(promise) ==
    IF is_some(promise.transform_reply) /\ ~unwrap(promise.transform_reply).ok
    THEN Ready(get_lookup_data(
             lookup_transform(unwrap(promise.transform_reply)), <<>>, 0))
    ELSE IF /\ is_some(promise.transform_reply)
            /\ is_some(promise.joints_reply)
            /\ is_some(promise.gantry_reply)
         THEN Ready(get_lookup_data(
                  lookup_transform(unwrap(promise.transform_reply)),
                  get_joint_states(unwrap(promise.joints_reply)),
                  get_opc_current_position(unwrap(promise.gantry_reply))))
         ELSE Pending

\* Promise::poll on the lookup promise: the thread's result is
\* get_lookup_data's value once the join is done
poll_lookup(promise) ==
    IF JoinDone(promise)
    THEN Ready(get_lookup_data(
             lookup_transform(unwrap(promise.transform_reply)),
             get_joint_states(unwrap(promise.joints_reply)),
             get_opc_current_position(unwrap(promise.gantry_reply))))
    ELSE Pending

\* a thread is running behind the slot
TransformsRunning(slot) == is_some(slot) /\ is_none(poll_transforms(unwrap(slot)))
LookupRunning(slot) == is_some(slot) /\ ~JoinDone(unwrap(slot))

Detach(det, name, running) ==
    IF running THEN [det EXCEPT ![name] = @ + 1] ELSE det

----------------------------------------------------------------------------
(* lookup.rs: struct LookupTab.  The methods work on s = [tab, det]: the   *)
(* tab and the detached-thread counters.                                   *)

LookupTab_new ==
    [robot_id_input |-> "r1",
     get_all_transforms_promise |-> None,
     transform_keys |-> <<>>,
     parent |-> None,
     child |-> None,
     lookup_promise |-> None,
     lookup_output |-> None,
     lookup_error |-> None]

\* mutant: the selections are kept whatever the new list holds
LookupTab_process_transforms_result_KeysOnly(tab, result) ==
    [tab EXCEPT !.transform_keys = sort_unstable(result)]

\* mutant: a selection is cleared although it is in the new list
LookupTab_process_transforms_result_ClearAll(tab, result) ==
    [tab EXCEPT !.transform_keys = sort_unstable(result),
                !.parent = None, !.child = None]

\* mutant: only the child is checked against the new list
LookupTab_process_transforms_result_ChildOnly(tab, result) ==
    LET keys == sort_unstable(result) IN
    [tab EXCEPT !.transform_keys = keys,
                !.child = IF is_some(@) /\ ~contains(keys, unwrap(@))
                          THEN None ELSE @]

LookupTab_process_transforms_result(tab, result) ==
    LET keys == sort_unstable(result) IN
    [tab EXCEPT !.transform_keys = keys,
                !.parent = IF is_some(@) /\ ~contains(keys, unwrap(@))
                           THEN None ELSE @,
                !.child = IF is_some(@) /\ ~contains(keys, unwrap(@))
                          THEN None ELSE @]

\* mutant: the slot keeps the promise whose result was processed
LookupTab_poll_transforms_promise_KeepSlot(s) ==
    IF is_none(s.tab.get_all_transforms_promise)
    THEN [s |-> s, is_fetching |-> FALSE]
    ELSE LET promise == unwrap(s.tab.get_all_transforms_promise)
         IN IF is_some(poll_transforms(promise))
            THEN [s |-> [s EXCEPT !.tab = LookupTab_process_transforms_result(
                                      s.tab, unwrap(poll_transforms(promise)))],
                  is_fetching |-> FALSE]
            ELSE [s |-> s, is_fetching |-> TRUE]

\* returns [s, is_fetching]
LookupTab_poll_transforms_promise(s) ==
    IF is_none(s.tab.get_all_transforms_promise)
    THEN [s |-> s, is_fetching |-> FALSE]
    ELSE LET promise == unwrap(s.tab.get_all_transforms_promise)
             taken == [s.tab EXCEPT !.get_all_transforms_promise = None]
         IN IF is_some(poll_transforms(promise))
            THEN [s |-> [s EXCEPT !.tab = LookupTab_process_transforms_result(
                                      taken, unwrap(poll_transforms(promise)))],
                  is_fetching |-> FALSE]
            ELSE [s |-> s, is_fetching |-> TRUE]

LookupTab_spawn_transforms_promise(s) ==
    [tab |-> [s.tab EXCEPT !.get_all_transforms_promise =
                               Some(TransformsPromise(Pending))],
     det |-> Detach(s.det, "lookup_tab_fetcher",
                    TransformsRunning(s.tab.get_all_transforms_promise))]

\* mutant: starting a lookup leaves the earlier output and error in place
LookupTab_spawn_lookup_promise_KeepsResult(s) ==
    IF is_some(s.tab.parent) /\ is_some(s.tab.child)
    THEN [tab |-> [s.tab EXCEPT !.lookup_promise =
                       Some(LookupPromise(unwrap(s.tab.parent), unwrap(s.tab.child),
                                          s.tab.robot_id_input, None, None, None))],
          det |-> Detach(s.det, "lookup_fetcher", LookupRunning(s.tab.lookup_promise))]
    ELSE s

\* mutant: starting a lookup drops the list fetch in the other slot
LookupTab_spawn_lookup_promise_DropsFetch(s) ==
    LET cleared == [s.tab EXCEPT !.lookup_output = None, !.lookup_error = None,
                                 !.get_all_transforms_promise = None] IN
    IF is_some(s.tab.parent) /\ is_some(s.tab.child)
    THEN [tab |-> [cleared EXCEPT !.lookup_promise =
                       Some(LookupPromise(unwrap(s.tab.parent), unwrap(s.tab.child),
                                          s.tab.robot_id_input, None, None, None))],
          det |-> Detach(s.det, "lookup_fetcher", LookupRunning(s.tab.lookup_promise))]
    ELSE [s EXCEPT !.tab = cleared]

LookupTab_spawn_lookup_promise(s) ==
    LET cleared == [s.tab EXCEPT !.lookup_output = None, !.lookup_error = None] IN
    IF is_some(s.tab.parent) /\ is_some(s.tab.child)
    THEN [tab |-> [cleared EXCEPT !.lookup_promise =
                       Some(LookupPromise(unwrap(s.tab.parent), unwrap(s.tab.child),
                                          s.tab.robot_id_input, None, None, None))],
          det |-> Detach(s.det, "lookup_fetcher", LookupRunning(s.tab.lookup_promise))]
    ELSE [s EXCEPT !.tab = cleared]

\* mutant: the frames the lookup was spawned with name the result
LookupTab_poll_lookup_promise_Captured(tab) ==
    IF is_none(tab.lookup_promise) THEN tab
    ELSE LET polled == poll_lookup(unwrap(tab.lookup_promise)) IN
         IF is_none(polled) THEN tab
         ELSE LET result == unwrap(polled)
                  child_frame_id == unwrap(tab.lookup_promise).child
                  data == unwrap(result.val)
                  output == JsonOutputWithMetadata(
                                child_frame_id,
                                unwrap(tab.lookup_promise).parent,
                                data.transform.transform,
                                Metadata(child_frame_id,
                                         vec_to_joint_map(data.joint_states),
                                         data.gantry_position))
                  json == to_string_pretty(output)
              IN IF result.ok
                 THEN IF json.ok
                      THEN [tab EXCEPT !.lookup_output = Some(<<output, unwrap(json.val)>>),
                                       !.lookup_promise = None]
                      ELSE [tab EXCEPT !.lookup_error =
                                Some(<<"JSON serialization error: ", unwrap(json.err)>>),
                                       !.lookup_promise = None]
                 ELSE [tab EXCEPT !.lookup_error = Some(unwrap(result.err)),
                                  !.lookup_promise = None]

\* mutant: a lookup that failed stays in the slot
LookupTab_poll_lookup_promise_KeepOnError(tab) ==
    IF is_none(tab.lookup_promise) THEN tab
    ELSE LET polled == poll_lookup(unwrap(tab.lookup_promise)) IN
         IF is_none(polled) THEN tab
         ELSE LET result == unwrap(polled)
                  child_frame_id == unwrap_or_default(tab.child)
                  data == unwrap(result.val)
                  output == JsonOutputWithMetadata(
                                child_frame_id,
                                unwrap_or_default(tab.parent),
                                data.transform.transform,
                                Metadata(child_frame_id,
                                         vec_to_joint_map(data.joint_states),
                                         data.gantry_position))
                  json == to_string_pretty(output)
              IN IF result.ok
                 THEN [tab EXCEPT !.lookup_output = Some(<<output, unwrap(json.val)>>),
                                  !.lookup_promise = None]
                 ELSE [tab EXCEPT !.lookup_error = Some(unwrap(result.err))]

LookupTab_poll_lookup_promise(tab) ==
    IF is_none(tab.lookup_promise) THEN tab
    ELSE LET polled == poll_lookup(unwrap(tab.lookup_promise)) IN
         IF is_none(polled) THEN tab
         ELSE LET result == unwrap(polled)
                  child_frame_id == unwrap_or_default(tab.child)
                  data == unwrap(result.val)
                  output == JsonOutputWithMetadata(
                                child_frame_id,
                                unwrap_or_default(tab.parent),
                                data.transform.transform,
                                Metadata(child_frame_id,
                                         vec_to_joint_map(data.joint_states),
                                         data.gantry_position))
                  json == to_string_pretty(output)
              IN IF result.ok
                 THEN IF json.ok
                      THEN [tab EXCEPT !.lookup_output = Some(<<output, unwrap(json.val)>>),
                                       !.lookup_promise = None]
                      ELSE [tab EXCEPT !.lookup_error =
                                Some(<<"JSON serialization error: ", unwrap(json.err)>>),
                                       !.lookup_promise = None]
                 ELSE [tab EXCEPT !.lookup_error = Some(unwrap(result.err)),
                                  !.lookup_promise = None]

\* ComboBox of draw_transform_selector: the entry "None" and one entry per key;
\* a click on an entry assigns the selection
draw_transform_selector(selection, keys, clicked, arg) ==
    IF clicked /\ (is_none(arg) \/ contains(keys, unwrap(arg)))
    THEN arg ELSE selection

\* format!("{}_to_{}.json", parent_frame_id, child_frame_id)
default_filename(output_data) ==
    <<output_data.parent_frame_id, "_to_", output_data.child_frame_id, ".json">>

\* save_json_to_file: file_path is the path the user chose in the dialog
\* (None when the dialog was cancelled); gives the file written, if any.  A
\* std::fs::write that fails is only logged and leaves no file, as a
\* cancelled dialog does.
LookupTab_save_json_to_file(tab, file_path) ==
    IF is_some(tab.lookup_output) /\ is_some(file_path)
    THEN Some([path |-> unwrap(file_path),
               default_filename |-> default_filename(unwrap(tab.lookup_output)[1]),
               content |-> unwrap(tab.lookup_output)[2]])
    ELSE None

\* the text a TextEdit::multiline holds after the user has edited it; the
\* edit modelled is deleting all of the text
EditedText(text) == <<>>

\* draw_output_section: the error, or else the output's JSON text in a
\* TextEdit::multiline bound to the stored string
LookupTab_draw_output_section(tab, edited) ==
    IF is_none(tab.lookup_error) /\ is_some(tab.lookup_output) /\ edited
    THEN [tab EXCEPT !.lookup_output =
              Some(<<unwrap(@)[1], EditedText(unwrap(@)[2])>>)]
    ELSE tab

\* mutant: the Fetch Transforms button is offered while a fetch is pending
LookupTab_fetch_offered_Always(is_fetching_list) == TRUE

\* the Fetch Transforms button is drawn when the poll did not report Pending
LookupTab_fetch_offered(is_fetching_list) == ~is_fetching_list

\* mutant: the Lookup button stays enabled while a lookup is pending
LookupTab_lookup_enabled_WhileLoading(both_selected, is_loading_lookup) ==
    both_selected

\* mutant: the Lookup button is enabled whatever is selected
LookupTab_lookup_enabled_Unselected(both_selected, is_loading_lookup) ==
    ~is_loading_lookup

\* ui.add_enabled_ui(both_selected && !is_loading_lookup, ..) of the Lookup button
LookupTab_lookup_enabled(both_selected, is_loading_lookup) ==
    both_selected /\ ~is_loading_lookup

LookupTab_ui(s, in) ==
    LET \* TextEdit::singleline(&mut self.robot_id_input)
        s0 == IF in.kind = "robot_id"
              THEN [s EXCEPT !.tab.robot_id_input = unwrap(in.arg)] ELSE s
        polled == LookupTab_poll_transforms_promise(s0)
        s1 == IF LookupTab_fetch_offered(polled.is_fetching) /\ in.kind = "fetch"
              THEN LookupTab_spawn_transforms_promise(polled.s) ELSE polled.s
        s2 == [s1 EXCEPT
                  !.tab.parent = draw_transform_selector(
                      @, s1.tab.transform_keys, in.kind = "parent", in.arg),
                  !.tab.child = draw_transform_selector(
                      @, s1.tab.transform_keys, in.kind = "child", in.arg)]
        both_selected == is_some(s2.tab.parent) /\ is_some(s2.tab.child)
        is_loading_lookup == is_some(s2.tab.lookup_promise)
        s3 == IF /\ LookupTab_lookup_enabled(both_selected, is_loading_lookup)
                 /\ in.kind = "lookup"
              THEN LookupTab_spawn_lookup_promise(s2) ELSE s2
        s4 == [s3 EXCEPT !.tab = LookupTab_poll_lookup_promise(@)]
        \* the Save As button is drawn when there is an output
        written == IF is_some(s4.tab.lookup_output) /\ in.kind = "save_as"
                   THEN LookupTab_save_json_to_file(s4.tab, in.arg) ELSE None
    IN  [tab |-> LookupTab_draw_output_section(s4.tab, in.kind = "json_edit"),
         det |-> s4.det,
         written |-> written]

----------------------------------------------------------------------------
(* robot.rs *)

\* SavedPayload::variants(): the entries of the dropdown, in its order
SavedPayload_variants == <<"None", "Gripper", "Svt", "Bvt", "Photoneo", "Sponge">>

\* CommandType::variants()
CommandType_variants ==
    <<"UnsafeMoveL", "UnsafeMoveJ", "SafeMoveL", "SafeMoveJ", "PickVacuum",
      "PlaceVacuum">>

\* mutant: the payload goes out as the name at the variant's place in the
\* order the enum declares its variants in, taken from the dropdown's list
SavedPayload_to_string_ByIndex(p) ==
    LET declared == <<"Gripper", "Svt", "Bvt", "Photoneo", "Sponge", "None">>
        names == <<"none", "gripper", "svt", "bvt", "photoneo", "sponge">>
    IN names[CHOOSE i \in DOMAIN declared : declared[i] = p]

\* impl Display for SavedPayload
SavedPayload_to_string(p) ==
    CASE p = "Gripper" -> "gripper" [] p = "Svt" -> "svt" [] p = "Bvt" -> "bvt"
      [] p = "Photoneo" -> "photoneo" [] p = "Sponge" -> "sponge"
      [] p = "None" -> "none"

\* impl Display for CommandType
CommandType_to_string(c) ==
    CASE c = "UnsafeMoveL" -> "unsafe_move_l" [] c = "UnsafeMoveJ" -> "unsafe_move_j"
      [] c = "SafeMoveL" -> "safe_move_l" [] c = "SafeMoveJ" -> "safe_move_j"
      [] c = "PickVacuum" -> "pick_vacuum" [] c = "PlaceVacuum" -> "place_vacuum"

\* impl Default for Payload
Payload_default ==
    [mass |-> 0, cog_x |-> 0, cog_y |-> 0, cog_z |-> 0, ixx |-> 0, iyy |-> 0,
     izz |-> 0, ixy |-> 0, ixz |-> 0, iyz |-> 0]

\* RobotTab::new; the f64 fields are in tenths (0.1 is 1, 1.0 is 10, 20.0 is 200)
RobotTab_new ==
    [robot_id_input |-> "r1",
     get_all_transforms_promise |-> None,
     robot_control_promise |-> None,
     transform_keys |-> <<>>,
     selected_goal_feature_id |-> None,
     tcp_keys |-> <<>>,
     selected_tcp |-> None,
     selected_faceplate |-> Some("tool0"),
     selected_baseframe |-> Some("base_link"),
     command_type |-> "UnsafeMoveL",
     acceleration |-> 1,
     velocity |-> 1,
     global_acceleration_scaling |-> 10,
     global_velocity_scaling |-> 10,
     use_blend_radius |-> FALSE,
     blend_radius |-> 0,
     use_joint_positions |-> FALSE,
     set_manual_joint_positions |-> FALSE,
     joint_positions |-> <<0, 0, 0, 0, 0, 0>>,
     use_preferred_joint_config |-> FALSE,
     preferred_joint_config |-> <<0, 0, 0, 0, 0, 0>>,
     set_manual_joint_config |-> FALSE,
     use_payload |-> FALSE,
     set_manual_payload |-> FALSE,
     saved_payload |-> "None",
     manual_payload |-> Payload_default,
     use_execution_time |-> FALSE,
     execution_time_s |-> 0,
     force_threshold |-> 200,
     use_relative_pose |-> FALSE,
     relative_pose |-> <<0, 0, 0, 0, 0, 0>>]

\* State::new and State::add: a State maps variable names to values; it is
\* modelled by its assignments in the order of their first insertion
State_new == <<>>
State_add(state, name, value) ==
    IF \E i \in DOMAIN state : state[i][1] = name
    THEN [i \in DOMAIN state |->
             IF state[i][1] = name THEN <<name, value>> ELSE state[i]]
    ELSE Append(state, <<name, value>>)

\* format!("{}_<field>", robot_name)
VarName(robot_name, field) == <<robot_name, "_", field>>

\* mutant: the array is collected in reverse order
to_spvalue_array_Reversed(a) ==
    SPArray([i \in DOMAIN a |-> SPFloat(a[Len(a) + 1 - i])])

\* tab.<array>.iter().map(|x| x.to_spvalue()).collect()
to_spvalue_array(a) == SPArray([i \in DOMAIN a |-> SPFloat(a[i])])

\* the assign!(..) of robot_command_tab_to_state in the order of its
\* state.add calls; evaluated once the four selections are known to be set
Assignments(tab) ==
    LET n == tab.robot_id_input IN
    << <<VarName(n, "request_trigger"), SPBool(TRUE)>>,
       <<VarName(n, "command_type"),
         SPString(CommandType_to_string(tab.command_type))>>,
       <<VarName(n, "accelleration"), SPFloat(tab.acceleration)>>,
       <<VarName(n, "velocity"), SPFloat(tab.velocity)>>,
       <<VarName(n, "use_execution_time"), SPBool(tab.use_execution_time)>>,
       <<VarName(n, "execution_time"), SPFloat(tab.execution_time_s)>>,
       <<VarName(n, "use_blend_radius"), SPBool(tab.use_blend_radius)>>,
       <<VarName(n, "blend_radius"), SPFloat(tab.blend_radius)>>,
       <<VarName(n, "use_joint_positions"), SPBool(tab.use_joint_positions)>>,
       <<VarName(n, "joint_positions"), to_spvalue_array(tab.joint_positions)>>,
       <<VarName(n, "use_preferred_joint_config"),
         SPBool(tab.use_preferred_joint_config)>>,
       <<VarName(n, "preferred_joint_config"),
         to_spvalue_array(tab.preferred_joint_config)>>,
       <<VarName(n, "use_payload"), SPBool(tab.use_payload)>>,
       <<VarName(n, "payload"),
         SPString(SavedPayload_to_string(tab.saved_payload))>>,
       <<VarName(n, "baseframe_id"), SPString(unwrap(tab.selected_baseframe))>>,
       <<VarName(n, "faceplate_id"), SPString(unwrap(tab.selected_faceplate))>>,
       <<VarName(n, "goal_feature_id"),
         SPString(unwrap(tab.selected_goal_feature_id))>>,
       <<VarName(n, "tcp_id"), SPString(unwrap(tab.selected_tcp))>>,
       <<VarName(n, "root_frame_id"), SPString("world")>>,
       <<VarName(n, "force_threshold"), SPFloat(tab.force_threshold)>>,
       <<VarName(n, "use_relative_pose"), SPBool(tab.use_relative_pose)>>,
       <<VarName(n, "relative_pose"), to_spvalue_array(tab.relative_pose)>> >>

RECURSIVE State_add_all(_, _)
State_add_all(state, assignments) ==
    IF assignments = <<>> THEN state
    ELSE State_add_all(State_add(state, Head(assignments)[1], Head(assignments)[2]),
                       Tail(assignments))

\* mutant: a missing tcp is not an error; the patch is built with the default
robot_command_tab_to_state_TcpUnchecked(tab) ==
    IF is_none(tab.selected_baseframe) THEN Err("Baseframe not selected")
    ELSE IF is_none(tab.selected_faceplate) THEN Err("Faceplate not selected")
    ELSE IF is_none(tab.selected_goal_feature_id)
         THEN Err("Goal feature not selected")
    ELSE Ok(State_add_all(State_new, Assignments(
                [tab EXCEPT !.selected_tcp = Some(unwrap_or_default(@))])))

\* mutant: the selections are checked in the order tcp, goal feature,
\* faceplate, baseframe
robot_command_tab_to_state_TcpFirst(tab) ==
    IF is_none(tab.selected_tcp) THEN Err("Tcp not selected")
    ELSE IF is_none(tab.selected_goal_feature_id)
         THEN Err("Goal feature not selected")
    ELSE IF is_none(tab.selected_faceplate) THEN Err("Faceplate not selected")
    ELSE IF is_none(tab.selected_baseframe) THEN Err("Baseframe not selected")
    ELSE Ok(State_add_all(State_new, Assignments(tab)))

\* the selections are matched in the order baseframe, faceplate, goal
\* feature, tcp; the first None returns its Err
robot_command_tab_to_state(tab) ==
    IF is_none(tab.selected_baseframe) THEN Err("Baseframe not selected")
    ELSE IF is_none(tab.selected_faceplate) THEN Err("Faceplate not selected")
    ELSE IF is_none(tab.selected_goal_feature_id)
         THEN Err("Goal feature not selected")
    ELSE IF is_none(tab.selected_tcp) THEN Err("Tcp not selected")
    ELSE Ok(State_add_all(State_new, Assignments(tab)))

\* Promise<()> of the thread "robot_control": the State the closure captured,
\* and whether send_robot_command (StateManager::set_state) has returned
RobotControlPromise(state, done) == [state |-> state, done |-> done]
RobotControlRunning(slot) == is_some(slot) /\ ~unwrap(slot).done

\* mutant: every selection missing from the new list is cleared
RobotTab_process_transforms_result_AllSelections(tab, result) ==
    LET keys == sort_unstable(result)
        Keep(sel) == IF is_some(sel) /\ ~contains(keys, unwrap(sel)) THEN None ELSE sel
    IN [tab EXCEPT !.transform_keys = keys,
                   !.selected_goal_feature_id = Keep(@),
                   !.selected_tcp = Keep(@),
                   !.selected_faceplate = Keep(@),
                   !.selected_baseframe = Keep(@)]

\* mutant: the goal feature is kept whatever the new list holds
RobotTab_process_transforms_result_KeysOnly(tab, result) ==
    [tab EXCEPT !.transform_keys = sort_unstable(result)]

RobotTab_process_transforms_result(tab, result) ==
    LET keys == sort_unstable(result) IN
    [tab EXCEPT !.transform_keys = keys,
                !.selected_goal_feature_id =
                    IF is_some(@) /\ ~contains(keys, unwrap(@)) THEN None ELSE @]

\* returns [s, is_fetching]
RobotTab_poll_transforms_promise(s) ==
    IF is_none(s.tab.get_all_transforms_promise)
    THEN [s |-> s, is_fetching |-> FALSE]
    ELSE LET promise == unwrap(s.tab.get_all_transforms_promise)
             taken == [s.tab EXCEPT !.get_all_transforms_promise = None]
         IN IF is_some(poll_transforms(promise))
            THEN [s |-> [s EXCEPT !.tab = RobotTab_process_transforms_result(
                                      taken, unwrap(poll_transforms(promise)))],
                  is_fetching |-> FALSE]
            ELSE [s |-> s, is_fetching |-> TRUE]

RobotTab_spawn_transforms_promise(s) ==
    [tab |-> [s.tab EXCEPT !.get_all_transforms_promise =
                               Some(TransformsPromise(Pending))],
     det |-> Detach(s.det, "robot_tab_fetcher",
                    TransformsRunning(s.tab.get_all_transforms_promise))]

\* mutant: no send is spawned while the previous one has not completed
RobotTab_spawn_robot_control_promise_Guarded(s) ==
    LET built == robot_command_tab_to_state(s.tab) IN
    IF built.ok /\ ~RobotControlRunning(s.tab.robot_control_promise)
    THEN [tab |-> [s.tab EXCEPT !.robot_control_promise =
                       Some(RobotControlPromise(unwrap(built.val), FALSE))],
          det |-> s.det]
    ELSE s

\* mutant: a failed build empties the slot
RobotTab_spawn_robot_control_promise_ClearOnError(s) ==
    LET built_state == robot_command_tab_to_state(s.tab) IN
    [tab |-> [s.tab EXCEPT !.robot_control_promise =
                  IF built_state.ok
                  THEN Some(RobotControlPromise(unwrap(built_state.val), FALSE))
                  ELSE None],
     det |-> Detach(s.det, "robot_control",
                    RobotControlRunning(s.tab.robot_control_promise))]

\* mutant: the patch goes out as two writes, each on a thread of its own,
\* the first of them with no promise to it
RobotTab_spawn_robot_control_promise_TwoWrites(s) ==
    LET built_state == robot_command_tab_to_state(s.tab) IN
    IF built_state.ok
    THEN [tab |-> [s.tab EXCEPT !.robot_control_promise =
                       Some(RobotControlPromise(unwrap(built_state.val), FALSE))],
          det |-> Detach(Detach(s.det, "robot_control",
                                RobotControlRunning(s.tab.robot_control_promise)),
                         "robot_control", TRUE)]
    ELSE s

RobotTab_spawn_robot_control_promise(s) ==
    LET built == robot_command_tab_to_state(s.tab) IN
    IF built.ok
    THEN [tab |-> [s.tab EXCEPT !.robot_control_promise =
                       Some(RobotControlPromise(unwrap(built.val), FALSE))],
          det |-> Detach(s.det, "robot_control",
                         RobotControlRunning(s.tab.robot_control_promise))]
    ELSE s

\* ComboBox of draw_pose_selector
draw_pose_selector(selection, keys, clicked, arg) ==
    IF clicked /\ (is_none(arg) \/ contains(keys, unwrap(arg)))
    THEN arg ELSE selection

\* mutant: the Fetch Transforms button is offered while a fetch is pending
RobotTab_fetch_offered_Always(is_fetching_list) == TRUE

\* the Fetch Transforms button is drawn when the poll did not report Pending
RobotTab_fetch_offered(is_fetching_list) == ~is_fetching_list

RobotTab_ui(s, in) ==
    LET \* the Send Command button is always enabled
        s0 == IF in.kind = "send" THEN RobotTab_spawn_robot_control_promise(s) ELSE s
        s1 == IF in.kind = "robot_id"
              THEN [s0 EXCEPT !.tab.robot_id_input = unwrap(in.arg)] ELSE s0
        polled == RobotTab_poll_transforms_promise(s1)
        s2 == IF RobotTab_fetch_offered(polled.is_fetching) /\ in.kind = "fetch"
              THEN RobotTab_spawn_transforms_promise(polled.s) ELSE polled.s
    IN  [s2 EXCEPT
            !.tab.selected_goal_feature_id = draw_pose_selector(
                @, s2.tab.transform_keys, in.kind = "goal", in.arg),
            !.tab.selected_tcp = draw_pose_selector(
                @, s2.tab.transform_keys, in.kind = "tcp", in.arg),
            !.tab.selected_faceplate = draw_pose_selector(
                @, s2.tab.transform_keys, in.kind = "faceplate", in.arg),
            !.tab.selected_baseframe = draw_pose_selector(
                @, s2.tab.transform_keys, in.kind = "baseframe", in.arg)]

----------------------------------------------------------------------------
(* tabs.rs: MyApp *)

\* enum AppTab
AppTab == {"RobotTab", "Transforms", "Lookup", "AnotherTab"}

\* what one frame's input events amount to: a click on (or text typed into)
\* one widget, or nothing
Input(kind, arg) == [kind |-> kind, arg |-> arg]

\* MyApp::new
Init ==
    /\ active_tab = "RobotTab"
    /\ lookup_tab = LookupTab_new
    /\ robot_tab = RobotTab_new
    /\ detached = [lookup_tab_fetcher |-> 0, lookup_fetcher |-> 0,
                   robot_tab_fetcher |-> 0, robot_control |-> 0]
    /\ written_file = None

\* the tab bar of MyApp::ui
MyApp_tab_bar(tab, in) == IF in.kind = "tab" THEN unwrap(in.arg) ELSE tab

\* the widgets a click can land on belong to the tab drawn in this frame
WidgetsOf(tab) ==
    CASE tab = "Lookup" -> {"robot_id", "fetch", "parent", "child", "lookup",
                            "save_as", "json_edit"}
      [] tab = "RobotTab" -> {"send", "robot_id", "fetch", "goal", "tcp",
                              "faceplate", "baseframe"}
      [] OTHER -> {}

\* MyApp::ui: the tab bar, then the ui of the active tab; returns the new
\* [active_tab, lookup_tab, robot_tab, detached, written_file]
\* mutant: every frame runs the ui of both tabs, the one that is not active
\* with no input
MyApp_ui_BothTabs(in) ==
    LET tab == MyApp_tab_bar(active_tab, in)
        none == [kind |-> "none", arg |-> None]
        l == LookupTab_ui([tab |-> lookup_tab, det |-> detached],
                          IF tab = "Lookup" THEN in ELSE none)
        r == RobotTab_ui([tab |-> robot_tab, det |-> l.det],
                         IF tab = "RobotTab" THEN in ELSE none)
    IN  [active_tab |-> tab,
         lookup_tab |-> l.tab,
         robot_tab |-> r.tab,
         detached |-> r.det,
         written_file |-> IF is_some(l.written) THEN l.written ELSE written_file]

MyApp_ui(in) ==
    LET tab == MyApp_tab_bar(active_tab, in)
        s == IF tab = "Lookup"
             THEN LookupTab_ui([tab |-> lookup_tab, det |-> detached], in)
             ELSE IF tab = "RobotTab"
             THEN RobotTab_ui([tab |-> robot_tab, det |-> detached], in)
             ELSE [tab |-> <<>>, det |-> detached]
    IN  [active_tab |-> tab,
         lookup_tab |-> IF tab = "Lookup" THEN s.tab ELSE lookup_tab,
         robot_tab |-> IF tab = "RobotTab" THEN s.tab ELSE robot_tab,
         detached |-> s.det,
         written_file |-> IF tab = "Lookup" /\ is_some(s.written)
                          THEN s.written ELSE written_file]

\* MyApp::update: one redraw frame with its input
Frame(in) ==
    /\ in.kind \in {"none", "tab"} \/ in.kind \in WidgetsOf(active_tab)
    /\ \E after \in {MyApp_ui(in)} :
        /\ \A name \in DOMAIN after.detached : after.detached[name] <= MaxDetached
        /\ active_tab' = after.active_tab
        /\ lookup_tab' = after.lookup_tab
        /\ robot_tab' = after.robot_tab
        /\ detached' = after.detached
        /\ written_file' = after.written_file

----------------------------------------------------------------------------
(* the worker threads: each action is one backend reply arriving *)

\* thread "fetcher" of the Lookup tab: get_all_transforms returns
LookupTabFetcherDone(reply) ==
    /\ TransformsRunning(lookup_tab.get_all_transforms_promise)
    /\ lookup_tab' = [lookup_tab EXCEPT !.get_all_transforms_promise =
                         Some(TransformsPromise(Ready(get_all_transforms(reply))))]
    /\ UNCHANGED <<active_tab, robot_tab, detached, written_file>>

\* thread "fetcher" of the Robot tab: get_all_transforms returns
RobotTabFetcherDone(reply) ==
    /\ TransformsRunning(robot_tab.get_all_transforms_promise)
    /\ robot_tab' = [robot_tab EXCEPT !.get_all_transforms_promise =
                        Some(TransformsPromise(Ready(get_all_transforms(reply))))]
    /\ UNCHANGED <<active_tab, lookup_tab, detached, written_file>>

\* thread "lookup_fetcher": TransformsManager::lookup_transform(parent, child)
\* replies with the transform t between the frames asked for, or an error
LookupTransformReply(ok, t, e) ==
    /\ is_some(lookup_tab.lookup_promise)
    /\ is_none(unwrap(lookup_tab.lookup_promise).transform_reply)
    /\ LET p == unwrap(lookup_tab.lookup_promise)
           reply == IF ok THEN Ok(SPTransformStamped(p.parent, p.child, t))
                    ELSE Err(e)
       IN lookup_tab' = [lookup_tab EXCEPT !.lookup_promise =
                            Some([p EXCEPT !.transform_reply = Some(reply)])]
    /\ UNCHANGED <<active_tab, robot_tab, detached, written_file>>

\* thread "lookup_fetcher": get_sp_value("{robot_id}_joint_states") replies
LookupJointsReply(reply) ==
    /\ is_some(lookup_tab.lookup_promise)
    /\ is_none(unwrap(lookup_tab.lookup_promise).joints_reply)
    /\ lookup_tab' = [lookup_tab EXCEPT !.lookup_promise =
                         Some([unwrap(@) EXCEPT !.joints_reply = Some(reply)])]
    /\ UNCHANGED <<active_tab, robot_tab, detached, written_file>>

\* thread "lookup_fetcher": get_sp_value("opc_current_position") replies
LookupGantryReply(reply) ==
    /\ is_some(lookup_tab.lookup_promise)
    /\ is_none(unwrap(lookup_tab.lookup_promise).gantry_reply)
    /\ lookup_tab' = [lookup_tab EXCEPT !.lookup_promise =
                         Some([unwrap(@) EXCEPT !.gantry_reply = Some(reply)])]
    /\ UNCHANGED <<active_tab, robot_tab, detached, written_file>>

\* thread "robot_control" behind the slot: set_state returns
RobotControlDone ==
    /\ RobotControlRunning(robot_tab.robot_control_promise)
    /\ robot_tab' = [robot_tab EXCEPT !.robot_control_promise =
                        Some([unwrap(@) EXCEPT !.done = TRUE])]
    /\ UNCHANGED <<active_tab, lookup_tab, detached, written_file>>

\* a thread "robot_control" whose promise was dropped: set_state returns
DetachedRobotControlDone ==
    /\ detached.robot_control > 0
    /\ detached' = [detached EXCEPT !.robot_control = @ - 1]
    /\ UNCHANGED <<active_tab, lookup_tab, robot_tab, written_file>>

----------------------------------------------------------------------------
(* The user's inputs and the backend's replies.  Each specification draws  *)
(* them from its own sets.                                                 *)

Redraw == Input("none", None)
TabClicks(tabs) == {Input("tab", Some(t)) : t \in tabs}
Clicks(kinds) == {Input(k, None) : k \in kinds}
SelectorClicks(kinds, ids) ==
    {Input(k, a) : k \in kinds, a \in {None} \cup {Some(id) : id \in ids}}

\* replies of TransformsManager::get_all_transforms: the map's keys in its
\* iteration order, or an error
FetchOk(keys) == Ok(keys)
FetchErr == Err("connection lost")

----------------------------------------------------------------------------
(* Spec: both tabs in use - list fetches, selections and sends *)

Inputs ==
    {Redraw}
    \cup TabClicks(AppTab)
    \cup Clicks({"fetch", "send"})
    \cup SelectorClicks({"parent", "goal"}, {"world"})
    \cup SelectorClicks({"child", "tcp"}, {"tool0"})

FetchReplies ==
    {FetchOk(<<"world", "tool0">>), FetchOk(<<"world", "tool0", "base_link">>),
     FetchErr}

Next ==
    \/ \E in \in Inputs : Frame(in)
    \/ \E reply \in FetchReplies : LookupTabFetcherDone(reply)
    \/ \E reply \in FetchReplies : RobotTabFetcherDone(reply)
    \/ RobotControlDone
    \/ DetachedRobotControlDone

Spec == Init /\ [][Next]_vars

----------------------------------------------------------------------------
(* LookupSpec: the Lookup tab in use - list fetches, selections, lookups *)

LookupInputs ==
    {Redraw}
    \cup TabClicks({"Lookup"})
    \cup Clicks({"fetch", "lookup"})
    \cup SelectorClicks({"parent", "child"}, {"base_link", "tool0", "world"})

LookupFetchReplies ==
    {FetchOk(<<"world", "tool0", "base_link">>), FetchOk(<<"tool0", "world">>),
     FetchErr}

Transforms == {<<1, 2, 3>>}
BackendErrors == {"no such transform"}
JointReplies == {Some(SPArray(<<SPFloat(1), SPFloat(2)>>))}
GantryReplies == {Some(SPFloat(5))}

LookupNext ==
    \/ \E in \in LookupInputs : Frame(in)
    \/ \E reply \in LookupFetchReplies : LookupTabFetcherDone(reply)
    \/ \E ok \in BOOLEAN, t \in Transforms, e \in BackendErrors :
           LookupTransformReply(ok, t, e)
    \/ \E reply \in JointReplies : LookupJointsReply(reply)
    \/ \E reply \in GantryReplies : LookupGantryReply(reply)

LookupSpec == Init /\ [][LookupNext]_vars

----------------------------------------------------------------------------
(* JoinSpec: one lookup at a time between fixed frames, every kind of      *)
(* reply to its three reads                                                *)

JoinInputs ==
    {Redraw, Input("tab", Some("Lookup")), Input("fetch", None),
     Input("parent", Some("world")), Input("child", Some("tool0")),
     Input("lookup", None)}

JoinFetchReplies == {FetchOk(<<"world", "tool0">>)}

JoinJointReplies ==
    {None, Some(SPString("idle")), Some(SPArrayUnknown), Some(SPArray(<<>>)),
     Some(SPArray(<<SPFloat(1), SPFloat(2)>>)),
     Some(SPArray(<<SPFloat(1), SPFloatUnknown>>))}

JoinGantryReplies ==
    {None, Some(SPFloat(5)), Some(SPFloatUnknown), Some(SPString("idle"))}

JoinNext ==
    \/ \E in \in JoinInputs : Frame(in)
    \/ \E reply \in JoinFetchReplies : LookupTabFetcherDone(reply)
    \/ \E ok \in BOOLEAN, t \in Transforms, e \in BackendErrors :
           LookupTransformReply(ok, t, e)
    \/ \E reply \in JoinJointReplies : LookupJointsReply(reply)
    \/ \E reply \in JoinGantryReplies : LookupGantryReply(reply)

JoinSpec == Init /\ [][JoinNext]_vars

----------------------------------------------------------------------------
(* ExportSpec: one lookup at a time between fixed frames, the JSON text    *)
(* box and the Save As dialog in use                                       *)

ExportPaths == {"out.json"}

ExportInputs ==
    JoinInputs
    \cup Clicks({"json_edit"})
    \cup SelectorClicks({"save_as"}, ExportPaths)

ExportNext ==
    \/ \E in \in ExportInputs : Frame(in)
    \/ \E reply \in JoinFetchReplies : LookupTabFetcherDone(reply)
    \/ \E ok \in BOOLEAN, t \in Transforms, e \in BackendErrors :
           LookupTransformReply(ok, t, e)
    \/ \E reply \in JointReplies : LookupJointsReply(reply)
    \/ \E reply \in GantryReplies : LookupGantryReply(reply)

ExportSpec == Init /\ [][ExportNext]_vars

----------------------------------------------------------------------------
(* LiveSpec: both tabs fetching lists and the Lookup tab looking up, with  *)
(* the frames that eframe keeps drawing: MyApp::update asks for the next   *)
(* frame with ctx.request_repaint() each time it runs, so a frame without  *)
(* user input cannot be put off forever.                                   *)

LiveInputs == JoinInputs \cup {Input("tab", Some("RobotTab"))}

LiveFetchReplies == {FetchOk(<<"world", "tool0">>)}

LiveNext ==
    \/ \E in \in LiveInputs : Frame(in)
    \/ \E reply \in LiveFetchReplies : LookupTabFetcherDone(reply)
    \/ \E reply \in LiveFetchReplies : RobotTabFetcherDone(reply)
    \/ \E ok \in BOOLEAN, t \in Transforms, e \in BackendErrors :
           LookupTransformReply(ok, t, e)
    \/ \E reply \in JointReplies : LookupJointsReply(reply)
    \/ \E reply \in GantryReplies : LookupGantryReply(reply)

LiveSpec == Init /\ [][LiveNext]_vars /\ WF_vars(Frame(Redraw))

----------------------------------------------------------------------------
(* SlotSpec: all four slots in use - the list fetches of both tabs, the    *)
(* lookup and the send, between fixed frames                               *)

SlotInputs ==
    LiveInputs
    \cup {Input("tab", Some("Transforms")),
          Input("goal", Some("world")), Input("tcp", Some("tool0")),
          Input("send", None)}

SlotNext ==
    \/ \E in \in SlotInputs : Frame(in)
    \/ \E reply \in LiveFetchReplies : LookupTabFetcherDone(reply)
    \/ \E reply \in LiveFetchReplies : RobotTabFetcherDone(reply)
    \/ \E t \in Transforms, e \in BackendErrors : LookupTransformReply(TRUE, t, e)
    \/ \E reply \in JointReplies : LookupJointsReply(reply)
    \/ \E reply \in GantryReplies : LookupGantryReply(reply)
    \/ RobotControlDone
    \/ DetachedRobotControlDone

SlotSpec == Init /\ [][SlotNext]_vars

----------------------------------------------------------------------------
(* Properties *)

\* some redraw frame is the step taken
FrameStep ==
    \E in \in Inputs \cup LookupInputs \cup JoinInputs \cup ExportInputs \cup SlotInputs :
        Frame(in)
\* a redraw frame without a click on a selector is the step taken
FrameStepNoSelector ==
    \E in \in Inputs \cup LookupInputs \cup JoinInputs :
        /\ in.kind \notin {"parent", "child", "goal", "tcp", "faceplate", "baseframe"}
        /\ Frame(in)

Count(b) == IF b THEN 1 ELSE 0

\* set_state calls that have been dispatched and have not returned
SendsInFlight ==
    Count(RobotControlRunning(robot_tab.robot_control_promise))
    + detached.robot_control

\* get_all_transforms / get_lookup_data threads that have not finished
LookupTabFetchesInFlight ==
    Count(TransformsRunning(lookup_tab.get_all_transforms_promise))
    + detached.lookup_tab_fetcher
RobotTabFetchesInFlight ==
    Count(TransformsRunning(robot_tab.get_all_transforms_promise))
    + detached.robot_tab_fetcher
LookupsInFlight ==
    Count(LookupRunning(lookup_tab.lookup_promise)) + detached.lookup_fetcher

\* the slot holds a result that no poll has taken yet
TransformsReady(slot) == is_some(slot) /\ is_some(poll_transforms(unwrap(slot)))
LookupReady(slot) == is_some(slot) /\ JoinDone(unwrap(slot))

\* C1: a Send Command taken while a spawned set_state has not completed is
\* rejected, so at most one send is in flight at any time.
C1_AtMostOneSendInFlight == SendsInFlight <= 1

\* C2: a lookup is spawned only while lookup_promise is empty: no lookup thread
\* ever outlives its promise, a frame leaves a pending lookup_promise as it
\* is (the trigger is disabled, the computation is not replaced and, with no
\* reply from the backend, the slot stays pending), and a promise is only
\* ever cleared once its join is done.
C2_LookupSpawnedOnlyWhenEmpty ==
    /\ [](LookupsInFlight <= 1 /\ detached.lookup_fetcher = 0)
    /\ [][/\ (LookupRunning(lookup_tab.lookup_promise) /\ FrameStep)
               => lookup_tab'.lookup_promise = lookup_tab.lookup_promise
          /\ LookupRunning(lookup_tab.lookup_promise)
               => is_some(lookup_tab'.lookup_promise)]_vars

\* C2 witness: a lookup is pending, one of its reads has a reply, and both
\* selections are still set (only the pending promise disables the trigger)
C2_Witness ==
    /\ LookupRunning(lookup_tab.lookup_promise)
    /\ is_some(unwrap(lookup_tab.lookup_promise).joints_reply)
    /\ is_some(lookup_tab.parent) /\ is_some(lookup_tab.child)

\* C3: in either tab a list fetch is spawned only when the tab's
\* get_all_transforms_promise is empty: at most one fetch thread per tab is in
\* flight, none outlives its promise, and a frame leaves a pending fetch
\* promise as it is.
C3_FetchSpawnedOnlyWhenEmpty ==
    /\ [](/\ LookupTabFetchesInFlight <= 1 /\ detached.lookup_tab_fetcher = 0
          /\ RobotTabFetchesInFlight <= 1 /\ detached.robot_tab_fetcher = 0)
    /\ [][/\ (TransformsRunning(lookup_tab.get_all_transforms_promise) /\ FrameStep)
               => lookup_tab'.get_all_transforms_promise
                      = lookup_tab.get_all_transforms_promise
          /\ (TransformsRunning(robot_tab.get_all_transforms_promise) /\ FrameStep)
               => robot_tab'.get_all_transforms_promise
                      = robot_tab.get_all_transforms_promise]_vars

\* C3 witness: both tabs have a list fetch pending at once
C3_Witness ==
    /\ TransformsRunning(lookup_tab.get_all_transforms_promise)
    /\ TransformsRunning(robot_tab.get_all_transforms_promise)

\* C4: the completion of a spawned set_state is observed by a later poll of
\* robot_control_promise and discarded: a frame that draws the Robot tab while
\* the promise holds its result leaves the slot empty.
C4_SendCompletionConsumed ==
    [][(/\ is_some(robot_tab.robot_control_promise)
        /\ unwrap(robot_tab.robot_control_promise).done
        /\ FrameStep /\ active_tab' = "RobotTab")
       => is_none(robot_tab'.robot_control_promise)]_vars

\* the lookup promise of the Lookup tab and the replies to its reads
lookup_promise == unwrap(lookup_tab.lookup_promise)
transform_reply == unwrap(lookup_promise.transform_reply)
joints_reply == unwrap(lookup_promise.joints_reply)
gantry_reply == unwrap(lookup_promise.gantry_reply)

\* the joint-state read / the position read failed: the value is missing or
\* of the wrong type
JointsReadFailed == is_none(joints_reply) \/ unwrap(joints_reply).kind # "Array"
PositionReadFailed ==
    is_none(gantry_reply) \/ unwrap(gantry_reply).kind # "Float64"

\* C5: whenever the lookup_transform read fails, the joined lookup completes
\* with Err carrying that transform error, whatever the joint-state read and
\* the position read returned, and the frame that consumes it shows that error
\* and no result.
C5_TransformFailureFailsLookup ==
    /\ [](LookupReady(lookup_tab.lookup_promise) /\ ~transform_reply.ok
            => poll_lookup(lookup_promise) =
                   Ready(Err(<<"GUI Failed to lookup transform with: ",
                               unwrap(transform_reply.err)>>)))
    /\ [][(/\ LookupReady(lookup_tab.lookup_promise) /\ ~transform_reply.ok
            /\ FrameStep /\ active_tab' = "Lookup")
           => /\ lookup_tab'.lookup_error =
                     Some(<<"GUI Failed to lookup transform with: ",
                            unwrap(transform_reply.err)>>)
              /\ is_none(lookup_tab'.lookup_output)]_vars

\* C5 witness: the join is done, the transform read failed, and both telemetry
\* reads succeeded
C5_Witness ==
    /\ LookupReady(lookup_tab.lookup_promise)
    /\ ~transform_reply.ok
    /\ ~JointsReadFailed /\ ~PositionReadFailed

\* C6: whenever the lookup_transform read succeeds, the joined lookup succeeds
\* with that transform even if the joint-state read and/or the position read
\* fail; a failed joint-state read gives the empty sequence and a failed
\* position read gives 0.0, and the frame that consumes the result shows it.
C6_TelemetryFailureDefaults ==
    /\ [](LookupReady(lookup_tab.lookup_promise) /\ transform_reply.ok
            => LET result == unwrap(poll_lookup(lookup_promise)) IN
               /\ result.ok
               /\ unwrap(result.val).transform = unwrap(transform_reply.val)
               /\ JointsReadFailed => unwrap(result.val).joint_states = <<>>
               /\ PositionReadFailed => unwrap(result.val).gantry_position = 0)
    /\ [][(/\ LookupReady(lookup_tab.lookup_promise) /\ transform_reply.ok
            /\ FrameStep /\ active_tab' = "Lookup")
           => /\ is_some(lookup_tab'.lookup_output)
              /\ is_none(lookup_tab'.lookup_error)
              /\ LET metadata == unwrap(lookup_tab'.lookup_output)[1].metadata IN
                 /\ JointsReadFailed
                      => DOMAIN metadata.preferred_joint_configuration = {}
                 /\ PositionReadFailed => metadata.gantry = 0]_vars

\* C6 witness: the join is done, the transform read succeeded, the joint
\* state is missing and the position is of the wrong type
C6_Witness ==
    /\ LookupReady(lookup_tab.lookup_promise)
    /\ transform_reply.ok
    /\ is_none(joints_reply)
    /\ is_some(gantry_reply) /\ unwrap(gantry_reply).kind = "String"

\* C7: a lookup spawned with parent p and child c whose transform read
\* succeeds is shown and exported with parent_frame_id = p, child_frame_id = c
\* and metadata.tcp_id = c, whatever happened to the selectors in between.
C7_ResultNamesSpawnedFrames ==
    [][(/\ LookupReady(lookup_tab.lookup_promise) /\ transform_reply.ok
        /\ FrameStep /\ is_some(lookup_tab'.lookup_output))
       => LET output == unwrap(lookup_tab'.lookup_output)[1] IN
          /\ output.parent_frame_id = lookup_promise.parent
          /\ output.child_frame_id = lookup_promise.child
          /\ output.metadata.tcp_id = lookup_promise.child]_vars

\* the fetched keys a tab's list-fetch promise holds
Fetched(slot) == unwrap(poll_transforms(unwrap(slot)))

\* a selection is unselected or names one of the keys
SelectionIn(selection, keys) == is_none(selection) \/ contains(keys, unwrap(selection))

\* C8: after a tab has consumed the result of a list fetch that returned some
\* keys, every selection of that tab (parent, child; goal feature, tcp,
\* faceplate, baseframe) that is not in the new transform_keys is unselected.
C8_AllSelectionsInvalidated ==
    [][/\ (/\ TransformsReady(lookup_tab.get_all_transforms_promise)
            /\ Fetched(lookup_tab.get_all_transforms_promise) # <<>>
            /\ FrameStep /\ active_tab' = "Lookup")
           => /\ SelectionIn(lookup_tab'.parent, lookup_tab'.transform_keys)
              /\ SelectionIn(lookup_tab'.child, lookup_tab'.transform_keys)
       /\ (/\ TransformsReady(robot_tab.get_all_transforms_promise)
            /\ Fetched(robot_tab.get_all_transforms_promise) # <<>>
            /\ FrameStep /\ active_tab' = "RobotTab")
           => /\ SelectionIn(robot_tab'.selected_goal_feature_id,
                              robot_tab'.transform_keys)
              /\ SelectionIn(robot_tab'.selected_tcp, robot_tab'.transform_keys)
              /\ SelectionIn(robot_tab'.selected_faceplate,
                              robot_tab'.transform_keys)
              /\ SelectionIn(robot_tab'.selected_baseframe,
                              robot_tab'.transform_keys)]_vars

\* what consuming the fetched keys makes of a selection
Invalidated(selection, fetched) ==
    IF is_some(selection) /\ ~contains(fetched, unwrap(selection))
    THEN None ELSE selection

\* C9: when the Lookup tab consumes a list-fetch result, a selected parent
\* that is not in the fetched set becomes unselected and one that is in it is
\* left unchanged; the same for the child.  (The frame is one without a click
\* on a selector, which would assign the selection anew.)
C9_LookupSelectionInvalidation ==
    [][(/\ TransformsReady(lookup_tab.get_all_transforms_promise)
        /\ FrameStepNoSelector /\ active_tab' = "Lookup")
       => /\ lookup_tab'.parent =
                 Invalidated(lookup_tab.parent,
                             Fetched(lookup_tab.get_all_transforms_promise))
          /\ lookup_tab'.child =
                 Invalidated(lookup_tab.child,
                             Fetched(lookup_tab.get_all_transforms_promise))]_vars

\* C9 witness: the Lookup tab is about to consume a fetched list that lacks
\* the selected parent and holds the selected child
C9_Witness ==
    /\ active_tab = "Lookup"
    /\ TransformsReady(lookup_tab.get_all_transforms_promise)
    /\ is_some(lookup_tab.parent) /\ is_some(lookup_tab.child)
    /\ ~contains(Fetched(lookup_tab.get_all_transforms_promise),
                 unwrap(lookup_tab.parent))
    /\ contains(Fetched(lookup_tab.get_all_transforms_promise),
                unwrap(lookup_tab.child))

\* the keys are in strictly ascending order: sorted, no duplicates
Ascending(keys) ==
    \A i \in DOMAIN keys : \A j \in DOMAIN keys : i < j => StrLess(keys[i], keys[j])

SameKeys(keys, fetched) ==
    /\ Len(keys) = Len(fetched)
    /\ {keys[i] : i \in DOMAIN keys} = {fetched[i] : i \in DOMAIN fetched}

\* C10: transform_keys is always sorted in ascending order without
\* duplicates, and after a consumed list-fetch result it holds exactly the keys
\* of the fetched map.
C10_TransformKeysSorted ==
    /\ [](Ascending(lookup_tab.transform_keys) /\ Ascending(robot_tab.transform_keys))
    /\ [][/\ (/\ TransformsReady(lookup_tab.get_all_transforms_promise)
               /\ FrameStep /\ active_tab' = "Lookup")
               => SameKeys(lookup_tab'.transform_keys,
                           Fetched(lookup_tab.get_all_transforms_promise))
          /\ (/\ TransformsReady(robot_tab.get_all_transforms_promise)
               /\ FrameStep /\ active_tab' = "RobotTab")
               => SameKeys(robot_tab'.transform_keys,
                           Fetched(robot_tab.get_all_transforms_promise))]_vars

\* C10 witness: both tabs have consumed lists that arrived unsorted
C10_Witness ==
    /\ lookup_tab.transform_keys = <<"base_link", "tool0", "world">>
    /\ robot_tab.transform_keys = <<"tool0", "world">>

----------------------------------------------------------------------------
(* BuildSpec: robot_command_tab_to_state over snapshots of the form.  The  *)
(* Robot tab starts as the widgets of RobotTab::ui can have left it after  *)
(* a list fetch: each selection unselected or one of the fetched keys, the *)
(* command type and the three arrays edited or not.                        *)

FormKeys == <<"base_link", "tool0", "world">>
FormCommandTypes == {"UnsafeMoveL", "SafeMoveJ"}
FormJointPositions == {<<0, 0, 0, 0, 0, 0>>, <<1, 2, 3, 4, 5, 6>>}
FormJointConfigs == {<<0, 0, 0, 0, 0, 0>>, <<-6, 5, -4, 3, -2, 1>>}
FormRelativePoses == {<<0, 0, 0, 0, 0, 0>>, <<10, 20, 30, 1, 2, 3>>}

FormSnapshots ==
    {[RobotTab_new EXCEPT
          !.transform_keys = FormKeys,
          !.selected_baseframe = baseframe,
          !.selected_faceplate = faceplate,
          !.selected_goal_feature_id = goal,
          !.selected_tcp = tcp,
          !.command_type = command_type,
          !.joint_positions = joint_positions,
          !.preferred_joint_config = preferred_joint_config,
          !.relative_pose = relative_pose] :
        baseframe \in {None, Some("base_link")},
        faceplate \in {None, Some("tool0")},
        goal \in {None, Some("world")},
        tcp \in {None, Some("tool0")},
        command_type \in FormCommandTypes,
        joint_positions \in FormJointPositions,
        preferred_joint_config \in FormJointConfigs,
        relative_pose \in FormRelativePoses}

BuildInit ==
    /\ active_tab = "RobotTab"
    /\ lookup_tab = LookupTab_new
    /\ robot_tab \in FormSnapshots
    /\ detached = [lookup_tab_fetcher |-> 0, lookup_fetcher |-> 0,
                   robot_tab_fetcher |-> 0, robot_control |-> 0]
    /\ written_file = None

BuildInputs == {Redraw} \cup Clicks({"send"})

BuildNext ==
    \/ \E in \in BuildInputs : Frame(in)
    \/ RobotControlDone
    \/ DetachedRobotControlDone

BuildSpec == BuildInit /\ [][BuildNext]_vars

\* the Result the builder gives for the form as it is
built == robot_command_tab_to_state(robot_tab)

\* the required selections in the order they are checked, with their reasons
RequiredSelections ==
    << <<robot_tab.selected_baseframe, "Baseframe not selected">>,
       <<robot_tab.selected_faceplate, "Faceplate not selected">>,
       <<robot_tab.selected_goal_feature_id, "Goal feature not selected">>,
       <<robot_tab.selected_tcp, "Tcp not selected">> >>

SomeSelectionMissing == \E i \in 1..4 : is_none(RequiredSelections[i][1])

\* C11: whenever at least one of baseframe, faceplate, goal feature and tcp
\* is unselected, robot_command_tab_to_state returns Err with a reason that
\* names a selection that is missing, and returns no patch.
C11_MissingSelectionRejected ==
    SomeSelectionMissing
        => /\ ~built.ok
           /\ is_none(built.val)
           /\ \E i \in 1..4 : /\ is_none(RequiredSelections[i][1])
                                /\ built.err = Some(RequiredSelections[i][2])

\* C11 witness: only the tcp is unselected, and a Send Command has left the
\* slot empty
C11_Witness ==
    /\ is_some(robot_tab.selected_baseframe)
    /\ is_some(robot_tab.selected_faceplate)
    /\ is_some(robot_tab.selected_goal_feature_id)
    /\ is_none(robot_tab.selected_tcp)
    /\ robot_tab.joint_positions = <<1, 2, 3, 4, 5, 6>>
    /\ is_none(robot_tab.robot_control_promise)

\* C12: when several required selections are missing, the reason names the
\* first missing one in the order baseframe, faceplate, goal feature, tcp.
C12_FirstMissingReported ==
    \A i \in 1..4 :
        (/\ is_none(RequiredSelections[i][1])
         /\ \A j \in 1..(i - 1) : is_some(RequiredSelections[j][1]))
            => built = Err(RequiredSelections[i][2])

\* C12 witness: the baseframe is selected and faceplate, goal feature and tcp
\* are all missing
C12_Witness ==
    /\ is_some(robot_tab.selected_baseframe)
    /\ is_none(robot_tab.selected_faceplate)
    /\ is_none(robot_tab.selected_goal_feature_id)
    /\ is_none(robot_tab.selected_tcp)

\* the entries of a patch under a key, and the value under a key
KeyCount(state, name) == Cardinality({i \in DOMAIN state : state[i][1] = name})
State_get(state, name) == state[CHOOSE i \in DOMAIN state : state[i][1] = name][2]

\* the scalar, boolean and array fields of the form, under the names the
\* builder writes them with where it writes them and under the names of
\* struct RobotTab where it does not
FormFields ==
    {"command_type", "accelleration", "velocity",
     "global_acceleration_scaling", "global_velocity_scaling",
     "use_blend_radius", "blend_radius",
     "use_joint_positions", "set_manual_joint_positions", "joint_positions",
     "use_preferred_joint_config", "preferred_joint_config",
     "set_manual_joint_config",
     "use_payload", "set_manual_payload", "payload", "manual_payload",
     "use_execution_time", "execution_time", "force_threshold",
     "use_relative_pose", "relative_pose"}

\* C13: when the four selections are set, building succeeds and every scalar,
\* boolean and array field of the form (global acceleration and velocity
\* scaling and the manual payload values and flags included) is in the patch as
\* exactly one entry under {robot_id}_{field}, and no key occurs twice.
C13_PatchIsTotal ==
    ~SomeSelectionMissing
        => /\ built.ok
           /\ \A i \in DOMAIN unwrap(built.val) :
                  KeyCount(unwrap(built.val), unwrap(built.val)[i][1]) = 1
           /\ \A field \in FormFields :
                  KeyCount(unwrap(built.val),
                           VarName(robot_tab.robot_id_input, field)) = 1

\* the three arrays of the form with the fields of the patch they go to
FormArrays ==
    {<<"joint_positions", robot_tab.joint_positions>>,
     <<"preferred_joint_config", robot_tab.preferred_joint_config>>,
     <<"relative_pose", robot_tab.relative_pose>>}

\* the patch holds each array of the form as 6 numbers in the form's order
ArraysKept(state) ==
    \A a \in FormArrays :
        LET name == VarName(robot_tab.robot_id_input, a[1]) IN
        /\ KeyCount(state, name) = 1
        /\ State_get(state, name).kind = "Array"
        /\ Len(State_get(state, name).items) = 6
        /\ \A i \in 1..6 : State_get(state, name).items[i] = SPFloat(a[2][i])

\* C14: in every successfully built patch - the one the builder returns and
\* the one a Send Command handed to its worker thread - joint_positions,
\* preferred_joint_config and relative_pose are each a sequence of exactly 6
\* numbers whose i-th element is the i-th element of the form's array.
C14_ArraysKeepOrder ==
    /\ built.ok => ArraysKept(unwrap(built.val))
    /\ is_some(robot_tab.robot_control_promise)
          => ArraysKept(unwrap(robot_tab.robot_control_promise).state)

\* C14 witness: a Send Command has built and dispatched a patch from a form
\* whose three arrays are all edited
C14_Witness ==
    /\ is_some(robot_tab.robot_control_promise)
    /\ robot_tab.joint_positions = <<1, 2, 3, 4, 5, 6>>
    /\ robot_tab.preferred_joint_config = <<-6, 5, -4, 3, -2, 1>>
    /\ robot_tab.relative_pose = <<10, 20, 30, 1, 2, 3>>

\* the frame taken is one with a click on Send Command
SendClicked == Frame(Input("send", None))

\* C15: when building the patch fails, a Send Command leaves
\* robot_control_promise exactly as it was and starts no thread: no set_state
\* call is issued and nothing becomes pending.
C15_BuildFailureLeavesSlot ==
    [][(SendClicked /\ ~built.ok)
       => /\ robot_tab'.robot_control_promise = robot_tab.robot_control_promise
          /\ detached' = detached
          /\ SendsInFlight' = SendsInFlight]_vars

\* C15 witness: an earlier send is still pending behind the slot and the form
\* no longer builds
C15_Witness ==
    /\ active_tab = "RobotTab"
    /\ RobotControlRunning(robot_tab.robot_control_promise)
    /\ ~built.ok

\* what a frame with a click on Send Command makes of the Robot tab
AfterSendClicked ==
    RobotTab_ui([tab |-> robot_tab, det |-> detached], Input("send", None)).tab

\* C16: a Send Command rejected for a missing selection surfaces the
\* validation error in the Robot tab's displayed state at once: the first
\* Send Command on a new Robot tab (goal feature and tcp unselected) does not
\* leave the tab as it was.
C16_ValidationErrorShown ==
    (robot_tab = RobotTab_new /\ ~built.ok) => AfterSendClicked # RobotTab_new

\* a redraw frame without a click on the Lookup button is the step taken
FrameStepNoLookup ==
    \E in \in Inputs \cup LookupInputs \cup JoinInputs :
        in.kind # "lookup" /\ Frame(in)

\* C17: the frame that consumes a lookup that failed with a backend error
\* sets lookup_error to the error text, leaves lookup_output unset and empties
\* lookup_promise, so that with parent and child selected the Lookup button is
\* enabled again; a click on it then starts a new lookup (unless that frame
\* first consumes a fetched list), and no frame without that click starts one.
C17_BackendErrorResetsLookup ==
    /\ [][(/\ LookupReady(lookup_tab.lookup_promise) /\ ~transform_reply.ok
            /\ FrameStep /\ active_tab' = "Lookup")
           => /\ lookup_tab'.lookup_error =
                     Some(unwrap(unwrap(poll_lookup(lookup_promise)).err))
              /\ is_none(lookup_tab'.lookup_output)
              /\ is_none(lookup_tab'.lookup_promise)
              /\ (is_some(lookup_tab'.parent) /\ is_some(lookup_tab'.child))
                   => LookupTab_lookup_enabled(
                          TRUE, is_some(lookup_tab'.lookup_promise))]_vars
    /\ [][(is_none(lookup_tab.lookup_promise) /\ FrameStepNoLookup)
           => is_none(lookup_tab'.lookup_promise)]_vars
    /\ [][(/\ active_tab = "Lookup"
            /\ is_some(lookup_tab.lookup_error)
            /\ is_none(lookup_tab.lookup_promise)
            /\ is_some(lookup_tab.parent) /\ is_some(lookup_tab.child)
            /\ ~TransformsReady(lookup_tab.get_all_transforms_promise)
            /\ Frame(Input("lookup", None)))
           => /\ LookupRunning(lookup_tab'.lookup_promise)
              /\ is_none(lookup_tab'.lookup_error)]_vars

\* C17 witness: a failed lookup has been consumed - the error is shown, the
\* slot is empty - and parent and child are still selected
C17_Witness ==
    /\ active_tab = "Lookup"
    /\ is_some(lookup_tab.lookup_error)
    /\ is_none(lookup_tab.lookup_output)
    /\ is_none(lookup_tab.lookup_promise)
    /\ is_some(lookup_tab.parent) /\ is_some(lookup_tab.child)

----------------------------------------------------------------------------
(* Export (ExportSpec) *)

\* the pretty-printed serialization of the stored lookup result
StoredPretty(tab) == unwrap(to_string_pretty(unwrap(tab.lookup_output)[1]).val)

FileWritten == written_file' # written_file

\* C18: whenever Save As writes a file, the content written is the
\* pretty-printed serialization of the stored lookup result, whatever the
\* user did between the lookup completing and the export.
C18_ExportIsStoredResult ==
    [][FileWritten =>
           /\ is_some(lookup_tab'.lookup_output)
           /\ unwrap(written_file').content = StoredPretty(lookup_tab')]_vars

----------------------------------------------------------------------------
(* Lookup preconditions (LookupSpec) *)

EitherUnselected == is_none(lookup_tab.parent) \/ is_none(lookup_tab.child)

\* the Lookup tab after a frame in which the user clicks where the Lookup
\* button is drawn
AfterLookupClicked ==
    LookupTab_ui([tab |-> lookup_tab, det |-> detached], Input("lookup", None)).tab

LookupSpawned ==
    is_none(lookup_tab.lookup_promise) /\ is_some(lookup_tab'.lookup_promise)

\* C19: every lookup computation is spawned in a state where both parent and
\* child are selected, and it is spawned for those two frames; while either
\* is unselected the Lookup trigger is not enabled: a click on it starts no
\* computation and leaves the shown output and error as they are.
C19_LookupNeedsBothSelected ==
    /\ [](EitherUnselected =>
              /\ ~LookupTab_lookup_enabled(FALSE, is_some(lookup_tab.lookup_promise))
              /\ is_none(lookup_tab.lookup_promise) =>
                     /\ is_none(AfterLookupClicked.lookup_promise)
                     /\ AfterLookupClicked.lookup_output = lookup_tab.lookup_output
                     /\ AfterLookupClicked.lookup_error = lookup_tab.lookup_error)
    /\ [][LookupSpawned =>
              /\ is_some(lookup_tab'.parent) /\ is_some(lookup_tab'.child)
              /\ unwrap(lookup_tab'.lookup_promise).parent = unwrap(lookup_tab'.parent)
              /\ unwrap(lookup_tab'.lookup_promise).child = unwrap(lookup_tab'.child)]_vars

\* C19 witness: a lookup between the two selected frames has just been
\* spawned (none of its reads has a reply yet)
C19_Witness ==
    /\ is_some(lookup_tab.lookup_promise)
    /\ is_none(unwrap(lookup_tab.lookup_promise).transform_reply)
    /\ is_none(unwrap(lookup_tab.lookup_promise).joints_reply)
    /\ is_none(unwrap(lookup_tab.lookup_promise).gantry_reply)
    /\ lookup_tab.parent = Some(unwrap(lookup_tab.lookup_promise).parent)
    /\ lookup_tab.child = Some(unwrap(lookup_tab.lookup_promise).child)

----------------------------------------------------------------------------
(* Result consumption (LiveSpec) *)

LookupTabDrawnAgain == []<>(active_tab = "Lookup")
RobotTabDrawnAgain == []<>(active_tab = "RobotTab")

\* a result that is not the one freshly consumed leaves what is shown as it
\* is, or a new lookup has cleared it
KeptOrCleared(shown_after, shown) == shown_after = shown \/ is_none(shown_after)

\* C20: a completed list fetch or lookup is consumed exactly once by its
\* tab.  As long as the owning tab keeps being drawn, a ready result does
\* not stay in its slot; the step that takes it out is a frame of the owning
\* tab, which shows the result (the sorted keys; the output or the error)
\* and leaves no ready result in the slot; and a frame that finds no ready
\* result applies none.
C20_ResultConsumedOnce ==
    /\ LookupTabDrawnAgain =>
           /\ TransformsReady(lookup_tab.get_all_transforms_promise)
                  ~> ~TransformsReady(lookup_tab.get_all_transforms_promise)
           /\ LookupReady(lookup_tab.lookup_promise)
                  ~> ~LookupReady(lookup_tab.lookup_promise)
    /\ RobotTabDrawnAgain =>
           (TransformsReady(robot_tab.get_all_transforms_promise)
              ~> ~TransformsReady(robot_tab.get_all_transforms_promise))
    /\ [][/\ TransformsReady(lookup_tab.get_all_transforms_promise)
               => \/ lookup_tab'.get_all_transforms_promise =
                         lookup_tab.get_all_transforms_promise
                  \/ /\ FrameStep /\ active_tab' = "Lookup"
                     /\ ~TransformsReady(lookup_tab'.get_all_transforms_promise)
                     /\ lookup_tab'.transform_keys = sort_unstable(
                            Fetched(lookup_tab.get_all_transforms_promise))
          /\ TransformsReady(robot_tab.get_all_transforms_promise)
               => \/ robot_tab'.get_all_transforms_promise =
                         robot_tab.get_all_transforms_promise
                  \/ /\ FrameStep /\ active_tab' = "RobotTab"
                     /\ ~TransformsReady(robot_tab'.get_all_transforms_promise)
                     /\ robot_tab'.transform_keys = sort_unstable(
                            Fetched(robot_tab.get_all_transforms_promise))
          /\ LookupReady(lookup_tab.lookup_promise)
               => \/ lookup_tab'.lookup_promise = lookup_tab.lookup_promise
                  \/ /\ FrameStep /\ active_tab' = "Lookup"
                     /\ is_none(lookup_tab'.lookup_promise)
                     /\ IF unwrap(poll_lookup(lookup_promise)).ok
                        THEN /\ is_some(lookup_tab'.lookup_output)
                             /\ is_none(lookup_tab'.lookup_error)
                        ELSE /\ is_none(lookup_tab'.lookup_output)
                             /\ lookup_tab'.lookup_error =
                                    Some(unwrap(unwrap(poll_lookup(lookup_promise)).err))
          /\ ~TransformsReady(lookup_tab.get_all_transforms_promise)
               => lookup_tab'.transform_keys = lookup_tab.transform_keys
          /\ ~TransformsReady(robot_tab.get_all_transforms_promise)
               => robot_tab'.transform_keys = robot_tab.transform_keys
          /\ ~LookupReady(lookup_tab.lookup_promise)
               => /\ KeptOrCleared(lookup_tab'.lookup_output, lookup_tab.lookup_output)
                  /\ KeptOrCleared(lookup_tab'.lookup_error, lookup_tab.lookup_error)]_vars

\* C20 witness: both tabs have consumed a fetched list and the Lookup tab a
\* lookup; every slot is empty again
C20_Witness ==
    /\ lookup_tab.transform_keys # <<>> /\ robot_tab.transform_keys # <<>>
    /\ is_some(lookup_tab.lookup_output)
    /\ is_none(lookup_tab.lookup_promise)
    /\ is_none(lookup_tab.get_all_transforms_promise)
    /\ is_none(robot_tab.get_all_transforms_promise)

----------------------------------------------------------------------------
(* Join, not race (JoinSpec) *)

AllReadsDone ==
    /\ is_some(lookup_promise.transform_reply)
    /\ is_some(lookup_promise.joints_reply)
    /\ is_some(lookup_promise.gantry_reply)

ReadOutstanding == is_some(lookup_tab.lookup_promise) /\ ~AllReadsDone

\* C21: the lookup promise is ready exactly when all three reads (transform,
\* joint states, position) have replied; while one of them is outstanding
\* the promise polls as pending and a frame leaves the slot, the output and
\* the error as they are, even if the transform read has already replied.
C21_JoinNotRace ==
    /\ [](is_some(lookup_tab.lookup_promise)
            => (is_some(poll_lookup(lookup_promise)) <=> AllReadsDone))
    /\ [][(ReadOutstanding /\ FrameStep)
           => /\ lookup_tab'.lookup_promise = lookup_tab.lookup_promise
              /\ lookup_tab'.lookup_output = lookup_tab.lookup_output
              /\ lookup_tab'.lookup_error = lookup_tab.lookup_error]_vars

\* C21 witness: the transform read has failed and the position read has
\* replied while the joint-state read is outstanding; the slot is pending
C21_Witness ==
    /\ ReadOutstanding
    /\ is_some(lookup_promise.transform_reply)
    /\ ~unwrap(lookup_promise.transform_reply).ok
    /\ is_some(lookup_promise.gantry_reply)
    /\ is_none(lookup_promise.joints_reply)
    /\ active_tab = "Lookup"

----------------------------------------------------------------------------
(* List-fetch failure policy (Spec) *)

\* the tab after a frame in which the user clicks where the Fetch Transforms
\* button is drawn
LookupTabAfterFetchClicked ==
    LookupTab_ui([tab |-> lookup_tab, det |-> detached], Input("fetch", None)).tab
RobotTabAfterFetchClicked ==
    RobotTab_ui([tab |-> robot_tab, det |-> detached], Input("fetch", None)).tab

\* the slot holds the completed fetch of a read that failed
FailedFetchReady(slot) == TransformsReady(slot) /\ Fetched(slot) = <<>>

\* C22: a failing get_all_transforms completes the list fetch with the empty
\* set.  The frame that consumes it takes it out of the slot, makes
\* transform_keys empty and records no error; with the slot empty a click on
\* Fetch Transforms starts a new fetch.
C22_FailedFetchIsEmptySet ==
    /\ [][/\ LookupTabFetcherDone(FetchErr)
               => FailedFetchReady(lookup_tab'.get_all_transforms_promise)
          /\ RobotTabFetcherDone(FetchErr)
               => FailedFetchReady(robot_tab'.get_all_transforms_promise)
          /\ (/\ FailedFetchReady(lookup_tab.get_all_transforms_promise)
              /\ FrameStep /\ active_tab' = "Lookup")
               => /\ ~TransformsReady(lookup_tab'.get_all_transforms_promise)
                  /\ lookup_tab'.transform_keys = <<>>
                  /\ is_none(lookup_tab'.lookup_error)
          /\ (/\ FailedFetchReady(robot_tab.get_all_transforms_promise)
              /\ FrameStep /\ active_tab' = "RobotTab")
               => /\ ~TransformsReady(robot_tab'.get_all_transforms_promise)
                  /\ robot_tab'.transform_keys = <<>>
                  /\ robot_tab'.robot_control_promise = robot_tab.robot_control_promise
                        \/ Frame(Input("send", None))]_vars
    /\ [](/\ is_none(lookup_tab.get_all_transforms_promise)
               => /\ LookupTab_fetch_offered(FALSE)
                  /\ TransformsRunning(
                         LookupTabAfterFetchClicked.get_all_transforms_promise)
          /\ is_none(robot_tab.get_all_transforms_promise)
               => /\ RobotTab_fetch_offered(FALSE)
                  /\ TransformsRunning(
                         RobotTabAfterFetchClicked.get_all_transforms_promise))

\* C22 witness: the Robot tab has consumed a failed fetch after an earlier
\* successful one (its key list is empty again, its slot is empty) and the
\* Lookup tab holds a failed fetch that is ready to be consumed
C22_Witness ==
    /\ FailedFetchReady(lookup_tab.get_all_transforms_promise)
    /\ lookup_tab.transform_keys # <<>>
    /\ is_none(robot_tab.get_all_transforms_promise)
    /\ robot_tab.transform_keys = <<>>
    /\ is_some(robot_tab.robot_control_promise)

----------------------------------------------------------------------------
(* Independent slots (SlotSpec) *)

LookupTabNow == [tab |-> lookup_tab, det |-> detached]
RobotTabNow == [tab |-> robot_tab, det |-> detached]

\* each operation on one slot of the Lookup tab leaves the tab's other slot
\* as it is
LookupTabSlotsApart ==
    /\ LookupTab_spawn_transforms_promise(LookupTabNow).tab.lookup_promise
           = lookup_tab.lookup_promise
    /\ LookupTab_poll_transforms_promise(LookupTabNow).s.tab.lookup_promise
           = lookup_tab.lookup_promise
    /\ LookupTab_spawn_lookup_promise(LookupTabNow).tab.get_all_transforms_promise
           = lookup_tab.get_all_transforms_promise
    /\ LookupTab_poll_lookup_promise(lookup_tab).get_all_transforms_promise
           = lookup_tab.get_all_transforms_promise

\* the same for the two slots of the Robot tab
RobotTabSlotsApart ==
    /\ RobotTab_spawn_transforms_promise(RobotTabNow).tab.robot_control_promise
           = robot_tab.robot_control_promise
    /\ RobotTab_poll_transforms_promise(RobotTabNow).s.tab.robot_control_promise
           = robot_tab.robot_control_promise
    /\ RobotTab_spawn_robot_control_promise(RobotTabNow).tab.get_all_transforms_promise
           = robot_tab.get_all_transforms_promise

\* C23: the slots are independent.  Spawning into, polling or consuming one
\* slot leaves the other slot of the tab as it is; with a list fetch
\* pending, a click on Lookup (both frames selected, no lookup in the slot)
\* starts a lookup and the fetch stays pending; with a lookup pending, a
\* click on Fetch Transforms (no fetch in the slot) starts a fetch and the
\* lookup stays as it is; a click on Send Command leaves the Robot tab's
\* fetch slot to its own poll and never touches the Lookup tab.
C23_SlotsIndependent ==
    /\ [](/\ LookupTabSlotsApart
          /\ RobotTabSlotsApart
          /\ (/\ TransformsRunning(lookup_tab.get_all_transforms_promise)
              /\ is_none(lookup_tab.lookup_promise)
              /\ ~EitherUnselected)
               => /\ LookupRunning(AfterLookupClicked.lookup_promise)
                  /\ AfterLookupClicked.get_all_transforms_promise
                         = lookup_tab.get_all_transforms_promise
          /\ (/\ LookupRunning(lookup_tab.lookup_promise)
              /\ is_none(lookup_tab.get_all_transforms_promise))
               => /\ TransformsRunning(
                         LookupTabAfterFetchClicked.get_all_transforms_promise)
                  /\ LookupTabAfterFetchClicked.lookup_promise
                         = lookup_tab.lookup_promise
          /\ ~TransformsReady(robot_tab.get_all_transforms_promise)
               => AfterSendClicked.get_all_transforms_promise
                      = robot_tab.get_all_transforms_promise)
    /\ [][Frame(Input("send", None)) => lookup_tab' = lookup_tab]_vars

\* C23 witness: a list fetch and a lookup are pending side by side in the
\* Lookup tab while a send is in the Robot tab's slot
C23_Witness ==
    /\ TransformsRunning(lookup_tab.get_all_transforms_promise)
    /\ LookupRunning(lookup_tab.lookup_promise)
    /\ is_some(robot_tab.robot_control_promise)

----------------------------------------------------------------------------
(* Atomic send (Spec) *)

\* the patch the thread behind the slot hands to StateManager::set_state
PatchInSlot(tab) == unwrap(tab.robot_control_promise).state

\* C24: a Send Command whose build succeeds starts exactly one set_state
\* call, which carries the whole patch built from the form as it was at the
\* click; no other frame starts a call, the patch in the slot stays what was
\* built until the next successful Send Command, whatever the user changes
\* in the form meanwhile, and each call returns once.
C24_OneWholeWritePerSend ==
    [][/\ (SendClicked /\ built.ok)
            => /\ SendsInFlight' = SendsInFlight + 1
               /\ robot_tab'.robot_control_promise =
                      Some(RobotControlPromise(unwrap(built.val), FALSE))
       /\ (SendClicked /\ ~built.ok) => SendsInFlight' = SendsInFlight
       /\ (FrameStep /\ ~SendClicked)
            => /\ SendsInFlight' = SendsInFlight
               /\ robot_tab'.robot_control_promise = robot_tab.robot_control_promise
       /\ RobotControlDone
            => /\ SendsInFlight' = SendsInFlight - 1
               /\ PatchInSlot(robot_tab') = PatchInSlot(robot_tab)
       /\ DetachedRobotControlDone
            => /\ SendsInFlight' = SendsInFlight - 1
               /\ robot_tab'.robot_control_promise = robot_tab.robot_control_promise]_vars

\* C24 witness: a set_state call is under way with the patch of the click,
\* and the form has since been changed so that it no longer builds
C24_Witness ==
    /\ RobotControlRunning(robot_tab.robot_control_promise)
    /\ KeyCount(PatchInSlot(robot_tab),
                VarName(robot_tab.robot_id_input, "goal_feature_id")) = 1
    /\ is_none(robot_tab.selected_goal_feature_id)
    /\ ~built.ok

----------------------------------------------------------------------------
(* EnumSpec: the builder and the send on forms with every entry of the     *)
(* command type and saved payload dropdowns chosen                         *)

EnumSnapshots ==
    {[RobotTab_new EXCEPT
          !.transform_keys = FormKeys,
          !.selected_goal_feature_id = Some("world"),
          !.selected_tcp = Some("tool0"),
          !.command_type = CommandType_variants[i],
          !.use_payload = use_payload,
          !.saved_payload = SavedPayload_variants[j]] :
        i \in DOMAIN CommandType_variants,
        j \in DOMAIN SavedPayload_variants,
        use_payload \in BOOLEAN}

EnumInit ==
    /\ active_tab = "RobotTab"
    /\ lookup_tab = LookupTab_new
    /\ robot_tab \in EnumSnapshots
    /\ detached = [lookup_tab_fetcher |-> 0, lookup_fetcher |-> 0,
                   robot_tab_fetcher |-> 0, robot_control |-> 0]
    /\ written_file = None

EnumSpec == EnumInit /\ [][BuildNext]_vars

----------------------------------------------------------------------------
(* Enumerated fields (EnumSpec) *)

\* the wire strings of the variants
CommandTypeWire ==
    [UnsafeMoveL |-> "unsafe_move_l", UnsafeMoveJ |-> "unsafe_move_j",
     SafeMoveL |-> "safe_move_l", SafeMoveJ |-> "safe_move_j",
     PickVacuum |-> "pick_vacuum", PlaceVacuum |-> "place_vacuum"]
SavedPayloadWire ==
    [None |-> "none", Gripper |-> "gripper", Svt |-> "svt", Bvt |-> "bvt",
     Photoneo |-> "photoneo", Sponge |-> "sponge"]

Range(f) == {f[x] : x \in DOMAIN f}

PatchEntry(state, field) == State_get(state, VarName(robot_tab.robot_id_input, field))

\* C25: the command_type and payload entries of a built patch are the wire
\* string of the form's variant; the strings of distinct variants differ;
\* and the string is that of the variant, wherever the dropdown lists it.
C25_EnumsAsFixedStrings ==
    /\ built.ok
    /\ KeyCount(unwrap(built.val), VarName(robot_tab.robot_id_input, "command_type")) = 1
    /\ KeyCount(unwrap(built.val), VarName(robot_tab.robot_id_input, "payload")) = 1
    /\ PatchEntry(unwrap(built.val), "command_type")
           = SPString(CommandTypeWire[robot_tab.command_type])
    /\ PatchEntry(unwrap(built.val), "payload")
           = SPString(SavedPayloadWire[robot_tab.saved_payload])
    /\ is_some(robot_tab.robot_control_promise)
           => /\ PatchEntry(PatchInSlot(robot_tab), "command_type")
                     = SPString(CommandTypeWire[robot_tab.command_type])
              /\ PatchEntry(PatchInSlot(robot_tab), "payload")
                     = SPString(SavedPayloadWire[robot_tab.saved_payload])
    /\ \A a, b \in Range(CommandType_variants) :
           a # b => CommandType_to_string(a) # CommandType_to_string(b)
    /\ \A a, b \in Range(SavedPayload_variants) :
           a # b => SavedPayload_to_string(a) # SavedPayload_to_string(b)
    /\ Range(CommandType_variants) = DOMAIN CommandTypeWire
    /\ Range(SavedPayload_variants) = DOMAIN SavedPayloadWire

\* C25 witness: a patch has been sent from a form with the last entry of
\* each dropdown chosen
C25_Witness ==
    /\ robot_tab.command_type = "PlaceVacuum"
    /\ robot_tab.saved_payload = "Sponge"
    /\ is_some(robot_tab.robot_control_promise)
    /\ unwrap(robot_tab.robot_control_promise).done

----------------------------------------------------------------------------
(* Joint map (JoinSpec) *)

\* joint sequences of several lengths, with values that repeat
JointSeqs ==
    {<<>>, <<7>>, <<1, 2>>, <<3, 3, 3>>, <<0, -1, 2, -3, 4, -5>>}

\* map has the n keys j0 .. j(n-1) and maps j{i} to the i-th of the joints
IsJointMapOf(map, joints) ==
    /\ DOMAIN map = {JointName(i) : i \in 0 .. Len(joints) - 1}
    /\ Cardinality(DOMAIN map) = Len(joints)
    /\ \A i \in 0 .. Len(joints) - 1 : map[JointName(i)] = joints[i + 1]

\* the joint sequence of the lookup result that is ready in the slot
ReadyJoints == unwrap(unwrap(poll_lookup(lookup_promise)).val).joint_states

\* C26: the frame that consumes a successful lookup with a joint sequence of
\* length n stores an output whose metadata.preferred_joint_configuration
\* has exactly the keys j0 .. j(n-1) and maps j{i} to the i-th joint value,
\* the empty sequence giving the empty map; vec_to_joint_map does so for
\* every sequence.
C26_JointMap ==
    /\ [](\A joints \in JointSeqs : IsJointMapOf(vec_to_joint_map(joints), joints))
    /\ [][(/\ LookupReady(lookup_tab.lookup_promise) /\ transform_reply.ok
            /\ FrameStep /\ active_tab' = "Lookup")
           => /\ is_some(lookup_tab'.lookup_output)
              /\ IsJointMapOf(
                     unwrap(lookup_tab'.lookup_output)[1]
                         .metadata.preferred_joint_configuration,
                     ReadyJoints)]_vars

\* C26 witness: a successful lookup with two joints has been consumed
C26_Witness ==
    /\ is_some(lookup_tab.lookup_output)
    /\ is_none(lookup_tab.lookup_promise)
    /\ Cardinality(DOMAIN unwrap(lookup_tab.lookup_output)[1]
                              .metadata.preferred_joint_configuration) = 2

----------------------------------------------------------------------------
(* Lookup display invariant (ExportSpec) *)

\* what a frame with a click where Save As is drawn, and a path chosen in the
\* dialog, would write
AfterSaveAsClicked ==
    LookupTab_ui(LookupTabNow, Input("save_as", Some("out.json"))).written

\* C27: lookup_output and lookup_error are never both set; while a lookup is
\* in the slot both are unset, spawning it having cleared them; and while a
\* lookup is pending nothing can be exported.
C27_LookupDisplay ==
    /\ [](/\ ~(is_some(lookup_tab.lookup_output) /\ is_some(lookup_tab.lookup_error))
          /\ is_some(lookup_tab.lookup_promise)
               => /\ is_none(lookup_tab.lookup_output)
                  /\ is_none(lookup_tab.lookup_error)
          /\ LookupRunning(lookup_tab.lookup_promise) => is_none(AfterSaveAsClicked))
    /\ [][LookupSpawned
            => /\ is_none(lookup_tab'.lookup_output)
               /\ is_none(lookup_tab'.lookup_error)
               /\ written_file' = written_file]_vars

\* C27 witness: a new lookup is pending after an earlier result was exported;
\* nothing is shown
C27_Witness ==
    /\ LookupRunning(lookup_tab.lookup_promise)
    /\ is_some(written_file)
    /\ unwrap(written_file).content # <<>>
    /\ is_none(lookup_tab.lookup_output)

----------------------------------------------------------------------------
(* Selection membership (Spec) *)

\* C28: in every reachable state the Lookup tab's parent and child and the
\* Robot tab's goal feature are each unselected or one of the tab's current
\* transform_keys, however selections and list-fetch completions interleave.
C28_SelectionsAreKeys ==
    /\ SelectionIn(lookup_tab.parent, lookup_tab.transform_keys)
    /\ SelectionIn(lookup_tab.child, lookup_tab.transform_keys)
    /\ SelectionIn(robot_tab.selected_goal_feature_id, robot_tab.transform_keys)

\* C28 witness: all three are selected, and the Robot tab has a second fetch
\* ready that failed and will take the goal feature's key away
C28_Witness ==
    /\ is_some(lookup_tab.parent) /\ is_some(lookup_tab.child)
    /\ is_some(robot_tab.selected_goal_feature_id)
    /\ Len(robot_tab.transform_keys) = 3
    /\ FailedFetchReady(robot_tab.get_all_transforms_promise)

----------------------------------------------------------------------------
(* Failed fetch clears selections (Spec) *)

\* C29: the frame that consumes a failed list fetch leaves the Lookup tab's
\* parent and child (the Robot tab's goal feature) unselected.  The Lookup
\* trigger is then disabled, a click on it starts nothing, and it stays so
\* while the key list is empty: the list gets keys again only from a fetch
\* that returned some, and parent and child are selected again only by the
\* user's click on a selector that lists keys.
C29_FailedFetchUnselects ==
    /\ [][/\ (/\ FailedFetchReady(lookup_tab.get_all_transforms_promise)
              /\ FrameStep /\ active_tab' = "Lookup")
               => /\ is_none(lookup_tab'.parent) /\ is_none(lookup_tab'.child)
                  /\ lookup_tab'.transform_keys = <<>>
          /\ (/\ FailedFetchReady(robot_tab.get_all_transforms_promise)
              /\ FrameStep /\ active_tab' = "RobotTab")
               => is_none(robot_tab'.selected_goal_feature_id)
          /\ (lookup_tab.transform_keys = <<>> /\ lookup_tab'.transform_keys # <<>>)
               => /\ TransformsReady(lookup_tab.get_all_transforms_promise)
                  /\ Fetched(lookup_tab.get_all_transforms_promise) # <<>>
          /\ (is_none(lookup_tab.parent) /\ is_some(lookup_tab'.parent))
               => /\ \E key \in {"world"} : Frame(Input("parent", Some(key)))
                  /\ lookup_tab'.transform_keys # <<>>
          /\ (is_none(lookup_tab.child) /\ is_some(lookup_tab'.child))
               => /\ \E key \in {"tool0"} : Frame(Input("child", Some(key)))
                  /\ lookup_tab'.transform_keys # <<>>]_vars
    /\ [](lookup_tab.transform_keys = <<>>
            => /\ EitherUnselected
               /\ ~LookupTab_lookup_enabled(
                      is_some(lookup_tab.parent) /\ is_some(lookup_tab.child),
                      is_some(lookup_tab.lookup_promise))
               /\ is_none(AfterLookupClicked.lookup_promise))

\* C29 witness: both tabs hold a failed fetch ready to be consumed while
\* parent, child and goal feature are selected
C29_Witness ==
    /\ FailedFetchReady(lookup_tab.get_all_transforms_promise)
    /\ FailedFetchReady(robot_tab.get_all_transforms_promise)
    /\ lookup_tab.parent = Some("world") /\ lookup_tab.child = Some("tool0")
    /\ robot_tab.selected_goal_feature_id = Some("world")

----------------------------------------------------------------------------
(* Inactive tabs are frozen (SlotSpec) *)

\* what a tab shows and holds besides the results its threads have sent
LookupTabShown(tab) ==
    <<tab.transform_keys, tab.parent, tab.child, tab.lookup_output, tab.lookup_error>>
RobotTabShown(tab) ==
    <<tab.transform_keys, tab.selected_goal_feature_id, tab.selected_tcp,
      tab.selected_faceplate, tab.selected_baseframe>>

\* C30: a frame runs the ui of the active tab only.  A tab that is not the
\* active one after the tab bar is left exactly as it was by the frame; a
\* completed list fetch or lookup of a tab stays in its slot through every
\* step that ends with another tab active; a thread's reply changes nothing
\* but its own slot; and no step changes the key lists of both tabs.
C30_InactiveTabsFrozen ==
    [][/\ (FrameStep /\ active_tab' # "Lookup") => lookup_tab' = lookup_tab
       /\ (FrameStep /\ active_tab' # "RobotTab") => robot_tab' = robot_tab
       /\ (/\ TransformsReady(lookup_tab.get_all_transforms_promise)
           /\ active_tab' # "Lookup")
            => lookup_tab'.get_all_transforms_promise =
                   lookup_tab.get_all_transforms_promise
       /\ (LookupReady(lookup_tab.lookup_promise) /\ active_tab' # "Lookup")
            => /\ lookup_tab'.lookup_promise = lookup_tab.lookup_promise
               /\ LookupTabShown(lookup_tab') = LookupTabShown(lookup_tab)
       /\ (/\ TransformsReady(robot_tab.get_all_transforms_promise)
           /\ active_tab' # "RobotTab")
            => robot_tab'.get_all_transforms_promise =
                   robot_tab.get_all_transforms_promise
       /\ ~FrameStep
            => /\ LookupTabShown(lookup_tab') = LookupTabShown(lookup_tab)
               /\ RobotTabShown(robot_tab') = RobotTabShown(robot_tab)
               /\ active_tab' = active_tab
       /\ \/ lookup_tab'.transform_keys = lookup_tab.transform_keys
          \/ robot_tab'.transform_keys = robot_tab.transform_keys]_vars

\* C30 witness: the Robot tab is active while the Lookup tab, with a key
\* list and an output of its own, holds a completed list fetch that waits
C30_Witness ==
    /\ active_tab = "RobotTab"
    /\ TransformsReady(lookup_tab.get_all_transforms_promise)
    /\ is_some(lookup_tab.lookup_output)
    /\ robot_tab.transform_keys = <<>>
    /\ lookup_tab.transform_keys # <<>>

====
